---------------------------- MODULE Spec2Model ----------------------------
(***************************************************************************)
(* State-machine model of the TRINCI Rust SDK host simulation              *)
(* (src/src/not_wasm.rs), the guest-side wrappers (src/src/host_wrap.rs),  *)
(* the entry point (src/src/export.rs) and the shared marshalling helpers  *)
(* (src/src/common.rs, src/src/core.rs).                                   *)
(*                                                                         *)
(* Strings and buffers are sequences of bytes (0..255): a Rust &str is its *)
(* UTF-8 bytes.  The mocked linear memory is the written prefix of the     *)
(* arena plus its cursor.  A WasmSlice (u64) is four 16-bit limbs, most    *)
(* significant first, so that the 64-bit width is kept.                    *)
(***************************************************************************)
EXTENDS Integers, Sequences, FiniteSets, TLC

VARIABLES
    memory,            \* ThreadData.memory: [buf, off, oom]
    app_ctx,           \* ThreadData.app_ctx: address of the current AppContext (0 = null)
    stack,             \* native call stack: one frame per running handler; a frame holds
                       \* hf_s_call's locals (ctx, prev_ctx, the handler and its args) and,
                       \* as history, the context that was current when it was entered
    accounts,          \* ThreadData.accounts: id -> Account
    contract_methods,  \* ThreadData.contract_methods: "id:method" -> ContractFunc
    registered,        \* history: the (id, method, func) triples given to set_contract_method
    req,               \* history: the arguments the guest gave to its latest call
    last,              \* history: the most recent completed hf_call / hf_s_call
    ret,               \* what the guest-side wrapper handed back to the calling handler
    callable_ret,      \* history: the most recent is_callable query and its result
    nsetup,            \* number of registrations and code assignments made so far
    ncalls,            \* number of cross-account calls made so far
    run_in,            \* entry point harness: the buffers handed to run
    app_calls,         \* history: the invocations of app_run
    run_out,           \* history: what the last run returned
    panicked,          \* the thread has panicked outside write_mem and runs no more
    op,                \* history: the latest keyed-data or asset operation of the guest
    written,           \* history: (owner, key) -> the bytes last stored under key by owner
    thread,            \* the thread that runs; the variables above are its instance
    tls,               \* THREADS_DATA: slot -> the ThreadData held for a thread that waits
    parked,            \* per thread: its native state and, as history, the ThreadData it left
    nswitch,           \* number of thread switches made so far
    calc,              \* a codec evaluation: its input and, once computed, its output
    handed             \* history: the writes the test code made to the arena, in order

vars == <<memory, app_ctx, stack, accounts, contract_methods, registered, req, last, ret,
          callable_ret, nsetup, ncalls, run_in, app_calls, run_out, panicked, op, written,
          thread, tls, parked, nswitch, calc, handed>>

engine_vars == <<app_ctx, stack, accounts, contract_methods, registered, req, last, ret,
                 callable_ret, nsetup, ncalls>>

run_vars == <<run_in, app_calls, run_out>>

store_vars == <<panicked, op, written>>

thread_vars == <<thread, tls, parked, nswitch>>

\* what the operations of the running host instance leave alone
aside_vars == <<thread_vars, calc, handed>>

-----------------------------------------------------------------------------
(* Bounds of the model                                                     *)

\* number of registrations in the registry specification
MaxSetup == 2

\* number of cross-account calls made in one behaviour
MaxCalls == 2

\* number of entry-point invocations explored in one behaviour
MaxRuns == 2

\* number of guest steps (calls, keyed-data and asset operations) in one
\* behaviour of the storage specifications
MaxOps == 3

-----------------------------------------------------------------------------
(* Byte strings                                                            *)

Byte == 0..255

\* "a"
AcctA == <<97>>
\* "a:b"
AcctAB == <<97, 58, 98>>
\* "x"
UserX == <<120>>
\* "c"
MethC == <<99>>
\* "b:c"
MethBC == <<98, 58, 99>>
\* "skynet"
Skynet == <<115, 107, 121, 110, 101, 116>>
\* "method not found"
MsgMethodNotFound ==
    <<109, 101, 116, 104, 111, 100, 32, 110, 111, 116, 32, 102, 111, 117, 110, 100>>
\* "incompatible contract app"
MsgIncompatible ==
    <<105, 110, 99, 111, 109, 112, 97, 116, 105, 98, 108, 101, 32, 99, 111, 110,
      116, 114, 97, 99, 116, 32, 97, 112, 112>>
\* "malformed input"
MsgMalformedInput ==
    <<109, 97, 108, 102, 111, 114, 109, 101, 100, 32, 105, 110, 112, 117, 116>>

\* "deserialization failure"
MsgDeserialization ==
    <<100, 101, 115, 101, 114, 105, 97, 108, 105, 122, 97, 116, 105, 111, 110, 32, 102,
      97, 105, 108, 117, 114, 101>>

AccountIds == {AcctA, AcctAB}
MethodNames == {MethC, MethBC}
\* the owner of the root context the harness creates
RootOwners == {AcctA}
ContractFuncs == {"f1", "f2"}
ContractCodes == {<<1>>, <<2>>}
\* the contract code a scoped call may expect
ExpectedCodes == {<<1>>}
CallData == {<<7>>}
\* what a handler may return: Ok(bytes) or Err(WasmError(msg))
Outcomes == {[ok |-> TRUE, data |-> <<>>], [ok |-> TRUE, data |-> <<5>>],
             [ok |-> FALSE, data |-> <<101>>]}

-----------------------------------------------------------------------------
(* UTF-8 (core::str::from_utf8, String::from_utf8_lossy)                   *)

IsCont(c) == c >= 128 /\ c <= 191

\* number of continuation bytes a lead byte announces; -1 for an invalid lead
Utf8Width(c) ==
    IF c < 128 THEN 0
    ELSE IF c >= 194 /\ c <= 223 THEN 1
    ELSE IF c >= 224 /\ c <= 239 THEN 2
    ELSE IF c >= 240 /\ c <= 244 THEN 3
    ELSE -1

\* the restricted range of the second byte after E0, ED, F0, F4
SecondOk(c, d) ==
    CASE c = 224 -> d >= 160 /\ d <= 191
      [] c = 237 -> d >= 128 /\ d <= 159
      [] c = 240 -> d >= 144 /\ d <= 191
      [] c = 244 -> d >= 128 /\ d <= 143
      [] OTHER -> IsCont(d)

\* number of bytes of b, from i on, forming the longest valid prefix of one
\* scalar value (w + 1 when the scalar is complete and valid)
RECURSIVE Utf8Prefix(_, _, _, _)
Utf8Prefix(b, i, k, w) ==
    IF k > w THEN k
    ELSE IF i + k > Len(b) THEN k
    ELSE IF (IF k = 1 THEN SecondOk(b[i], b[i + k]) ELSE IsCont(b[i + k]))
         THEN Utf8Prefix(b, i, k + 1, w)
         ELSE k

RECURSIVE Utf8From(_, _)
Utf8From(b, i) ==
    IF i > Len(b) THEN TRUE
    ELSE LET w == Utf8Width(b[i]) IN
         /\ w >= 0
         /\ Utf8Prefix(b, i, 1, w) = w + 1
         /\ Utf8From(b, i + w + 1)

from_utf8_ok(b) == Utf8From(b, 1)

RECURSIVE LossyFrom(_, _)
LossyFrom(b, i) ==
    IF i > Len(b) THEN <<>>
    ELSE LET w == Utf8Width(b[i])
             n == IF w < 0 THEN 1 ELSE Utf8Prefix(b, i, 1, w)
         IN IF w >= 0 /\ n = w + 1
            THEN SubSeq(b, i, i + w) \o LossyFrom(b, i + w + 1)
            ELSE <<239, 191, 189>> \o LossyFrom(b, i + n)

from_utf8_lossy(b) == LossyFrom(b, 1)

-----------------------------------------------------------------------------
(* Slice packing (common.rs)                                               *)

\* the two 16-bit limbs of the 32-bit pattern of an i32
Hi16(x) == (x \div 65536) % 65536
Lo16(x) == x % 65536

\* a 32-bit pattern, given by its limbs, read as an i32
AsI32(hi, lo) == IF hi >= 32768 THEN (hi - 65536) * 65536 + lo ELSE hi * 65536 + lo

\* Faulty variant: the sign-extended length is not masked before the or.
wslice_create_unmasked(offset, length) ==
    IF length < 0 THEN <<65535, 65535, Hi16(length), Lo16(length)>>
    ELSE <<Hi16(offset), Lo16(offset), Hi16(length), Lo16(length)>>

\* ((offset as u64) << 32) | (length as u64) & 0x00000000ffffffff
wslice_create(offset, length) == <<Hi16(offset), Lo16(offset), Hi16(length), Lo16(length)>>

\* (((wslice & 0xffffffff00000000) >> 32) as i32, (wslice & 0xffffffff) as i32)
wslice_split(wslice) == <<AsI32(wslice[1], wslice[2]), AsI32(wslice[3], wslice[4])>>

-----------------------------------------------------------------------------
(* Mocked linear memory (not_wasm.rs, common.rs)                           *)

MEMORY_SIZE == 16384

\* Memory { buf: [0; MEMORY_SIZE], off: 0 }; oom records the failed assertion
MemoryInit == [buf |-> <<>>, off |-> 0, oom |-> FALSE]

\* byte i of the arena: what was written, or the initial zero
MemByte(m, i) == IF i < Len(m.buf) THEN m.buf[i + 1] ELSE 0

\* Faulty variant: the cursor moves one byte further than the data.
write_mem_skip_byte(m, buf) ==
    IF m.oom THEN m
    ELSE IF m.off + Len(buf) + 1 < MEMORY_SIZE
         THEN [m EXCEPT !.buf = @ \o buf \o <<0>>, !.off = @ + Len(buf) + 1]
         ELSE [m EXCEPT !.off = @ + Len(buf) + 1, !.oom = TRUE]

\* Faulty variant: the cursor is moved back to where it was once the bytes are
\* copied.
write_mem_no_advance(m, buf) ==
    IF m.oom THEN m
    ELSE IF m.off + Len(buf) < MEMORY_SIZE
         THEN [m EXCEPT !.buf = SubSeq(@, 1, m.off) \o buf]
         ELSE [m EXCEPT !.off = @ + Len(buf), !.oom = TRUE]

\* write_mem as a state change: the cursor moves first, then the assertion
\* decides whether the bytes are copied
write_mem(m, buf) ==
    IF m.oom THEN m
    ELSE IF m.off + Len(buf) < MEMORY_SIZE
         THEN [m EXCEPT !.buf = @ \o buf, !.off = @ + Len(buf)]
         ELSE [m EXCEPT !.off = @ + Len(buf), !.oom = TRUE]

\* write_mem's return value: prev_off as i32
write_mem_ret(m) == m.off

\* slice_to_mem returns the address, slice_to_wslice the packed (address, length)
slice_to_mem(m, buf) == [mem |-> write_mem(m, buf), addr |-> write_mem_ret(m)]

slice_to_wslice(m, buf) ==
    [mem |-> write_mem(m, buf), wslice |-> wslice_create(write_mem_ret(m), Len(buf))]

slice_from_mem(m, offset, length) == [k \in 1..length |-> MemByte(m, offset + k - 1)]

slice_from_wslice(m, wslice) ==
    LET p == wslice_split(wslice) IN slice_from_mem(m, p[1], p[2])

-----------------------------------------------------------------------------
(* Envelope encoding (core.rs, common.rs: rmp_serialize / rmp_deserialize) *)
(* rmp_serde::to_vec writes a struct as an array of its fields in order;   *)
(* rmp_serde::from_slice reads that array back.                            *)

\* MessagePack bin header: bin8 (0xc4), bin16 (0xc5)
EncBinHeader(n) ==
    IF n < 256 THEN <<196, n>> ELSE <<197, (n \div 256) % 256, n % 256>>

\* MessagePack str header: fixstr (0xa0 | len), str8 (0xd9), str16 (0xda)
EncStrHeader(n) ==
    IF n < 32 THEN <<160 + n>>
    ELSE IF n < 256 THEN <<217, n>>
    ELSE <<218, (n \div 256) % 256, n % 256>>

\* Faulty variant: no u16, a larger value is cut to a byte.
EncUInt_u8_only(n) == IF n < 128 THEN <<n>> ELSE <<204, n % 256>>

\* MessagePack unsigned integer in its shortest form: fixint, u8 (0xcc), u16 (0xcd)
EncUInt(n) ==
    IF n < 128 THEN <<n>>
    ELSE IF n < 256 THEN <<204, n>>
    ELSE <<205, (n \div 256) % 256, n % 256>>

\* Faulty variant: the data written as a str.
AppOutput_serialize_as_str(out) ==
    <<146, IF out.success THEN 195 ELSE 194>> \o EncStrHeader(Len(out.data)) \o out.data

\* rmp_serialize(&AppOutput { success, data }): [bool, bin]
AppOutput_serialize(out) ==
    <<146, IF out.success THEN 195 ELSE 194>> \o EncBinHeader(Len(out.data)) \o out.data

\* rmp_serialize(&AppInput { depth, network, owner, caller, method, origin })
AppInput_serialize(ctx) ==
    <<150>> \o EncUInt(ctx.depth)
    \o EncStrHeader(Len(ctx.network)) \o ctx.network
    \o EncStrHeader(Len(ctx.owner)) \o ctx.owner
    \o EncStrHeader(Len(ctx.caller)) \o ctx.caller
    \o EncStrHeader(Len(ctx.method)) \o ctx.method
    \o EncStrHeader(Len(ctx.origin)) \o ctx.origin

\* A decoding step yields [ok, val, next]: the value and the position after it.
DecFail == [ok |-> FALSE, val |-> <<>>, next |-> 0]

\* a byte string of n bytes starting at position p
DecRaw(b, p, n) ==
    IF p + n - 1 <= Len(b)
    THEN [ok |-> TRUE, val |-> SubSeq(b, p, p + n - 1), next |-> p + n]
    ELSE DecFail

\* bytes (serde_bytes): bin8, bin16, or a str taken as its bytes
DecBytes(b, p) ==
    IF p > Len(b) THEN DecFail
    ELSE IF b[p] = 196 /\ p + 1 <= Len(b) THEN DecRaw(b, p + 2, b[p + 1])
    ELSE IF b[p] = 197 /\ p + 2 <= Len(b) THEN DecRaw(b, p + 3, b[p + 1] * 256 + b[p + 2])
    ELSE IF b[p] >= 160 /\ b[p] <= 191 THEN DecRaw(b, p + 1, b[p] - 160)
    ELSE IF b[p] = 217 /\ p + 1 <= Len(b) THEN DecRaw(b, p + 2, b[p + 1])
    ELSE IF b[p] = 218 /\ p + 2 <= Len(b) THEN DecRaw(b, p + 3, b[p + 1] * 256 + b[p + 2])
    ELSE DecFail

\* Faulty variant: the bytes of a str are taken without UTF-8 validation.
DecStr_unchecked(b, p) ==
    IF p > Len(b) THEN DecFail
    ELSE IF b[p] >= 160 /\ b[p] <= 191 THEN DecRaw(b, p + 1, b[p] - 160)
    ELSE IF b[p] = 217 /\ p + 1 <= Len(b) THEN DecRaw(b, p + 2, b[p + 1])
    ELSE IF b[p] = 218 /\ p + 2 <= Len(b) THEN DecRaw(b, p + 3, b[p + 1] * 256 + b[p + 2])
    ELSE DecFail

\* &str: fixstr or str8 whose bytes are valid UTF-8
DecStr(b, p) ==
    LET r == IF p > Len(b) THEN DecFail
             ELSE IF b[p] >= 160 /\ b[p] <= 191 THEN DecRaw(b, p + 1, b[p] - 160)
             ELSE IF b[p] = 217 /\ p + 1 <= Len(b) THEN DecRaw(b, p + 2, b[p + 1])
             ELSE IF b[p] = 218 /\ p + 2 <= Len(b)
                  THEN DecRaw(b, p + 3, b[p + 1] * 256 + b[p + 2])
             ELSE DecFail
    IN IF r.ok /\ from_utf8_ok(r.val) THEN r ELSE DecFail

\* u16: fixint, u8, u16, or a u32 whose value fits
DecU16(b, p) ==
    IF p > Len(b) THEN DecFail
    ELSE IF b[p] < 128 THEN [ok |-> TRUE, val |-> b[p], next |-> p + 1]
    ELSE IF b[p] = 204 /\ p + 1 <= Len(b)
         THEN [ok |-> TRUE, val |-> b[p + 1], next |-> p + 2]
    ELSE IF b[p] = 205 /\ p + 2 <= Len(b)
         THEN [ok |-> TRUE, val |-> b[p + 1] * 256 + b[p + 2], next |-> p + 3]
    ELSE IF b[p] = 206 /\ p + 4 <= Len(b) /\ b[p + 1] = 0 /\ b[p + 2] = 0
         THEN [ok |-> TRUE, val |-> b[p + 3] * 256 + b[p + 4], next |-> p + 5]
    ELSE DecFail

DecBool(b, p) ==
    IF p <= Len(b) /\ b[p] \in {194, 195}
    THEN [ok |-> TRUE, val |-> (b[p] = 195), next |-> p + 1]
    ELSE DecFail

\* rmp_deserialize::<AppOutput>: Ok(AppOutput) or Err("deserialization failure")
AppOutput_deserialize(b) ==
    LET s == IF Len(b) >= 1 /\ b[1] = 146 THEN DecBool(b, 2) ELSE DecFail
        d == IF s.ok THEN DecBytes(b, s.next) ELSE DecFail
    IN IF d.ok THEN [ok |-> TRUE, val |-> [success |-> s.val, data |-> d.val]]
       ELSE [ok |-> FALSE, val |-> [success |-> FALSE, data |-> <<>>]]

NoCtx == [depth |-> 0, network |-> <<>>, owner |-> <<>>, caller |-> <<>>,
          method |-> <<>>, origin |-> <<>>]

RECURSIVE DecStrs(_, _, _)
\* k consecutive &str fields starting at position p; val is their sequence
DecStrs(b, p, k) ==
    IF k = 0 THEN [ok |-> TRUE, val |-> <<>>, next |-> p]
    ELSE LET r == DecStr(b, p) IN
         IF ~r.ok THEN DecFail
         ELSE LET t == DecStrs(b, r.next, k - 1) IN
              IF t.ok THEN [ok |-> TRUE, val |-> <<r.val>> \o t.val, next |-> t.next]
              ELSE DecFail

\* the AppInput built from the decoded depth and the five decoded strings
AppInput_build(depth, s) ==
    IF s.ok
    THEN [ok |-> TRUE,
          val |-> [depth |-> depth, network |-> s.val[1], owner |-> s.val[2],
                   caller |-> s.val[3], method |-> s.val[4], origin |-> s.val[5]]]
    ELSE [ok |-> FALSE, val |-> NoCtx]

\* the fields that follow the depth d
AppInput_after_depth(b, d) ==
    IF d.ok THEN AppInput_build(d.val, DecStrs(b, d.next, 5))
    ELSE [ok |-> FALSE, val |-> NoCtx]

\* rmp_deserialize::<AppInput>: Ok(AppInput) or Err("deserialization failure").
\* An array of six fields: depth, network, owner, caller, method, origin.
AppInput_deserialize(b) ==
    AppInput_after_depth(b, IF Len(b) >= 1 /\ b[1] = 150 THEN DecU16(b, 2) ELSE DecFail)

\* Faulty variant: a failure flagged as a success.
AppOutput_ko_as_ok(msg) == [success |-> TRUE, data |-> msg]

\* AppOutput::ok(data), AppOutput::ko(msg) (export.rs)
AppOutput_ok(data) == [success |-> TRUE, data |-> data]
AppOutput_ko(msg) == [success |-> FALSE, data |-> msg]

\* impl From<AppOutput> for WasmSlice: serialize, leak, slice_to_wslice
AppOutput_into(m, out) == slice_to_wslice(m, AppOutput_serialize(out))

-----------------------------------------------------------------------------
(* Mock host state (not_wasm.rs)                                           *)

EmptyMap == [k \in {} |-> <<>>]

MapPut(f, key, v) == [k \in DOMAIN f \cup {key} |-> IF k = key THEN v ELSE f[k]]

\* #[derive(Default)] struct Account
AccountDefault == [assets |-> EmptyMap, data |-> EmptyMap, contract |-> <<>>]

\* get_account: the table after the lazy insertion of id
get_account(accs, id) == IF id \in DOMAIN accs THEN accs ELSE MapPut(accs, id, AccountDefault)

\* create_app_context(owner, caller)
create_app_context(owner, caller) ==
    [depth |-> 0, network |-> Skynet, owner |-> owner, caller |-> caller,
     method |-> <<>>, origin |-> caller]

\* get_app_ctx: the AppContext stored at the address held in app_ctx.  The
\* address designates the ctx slot of a frame of the native stack.
get_app_ctx == stack[app_ctx].ctx

\* format!("{}:{}", account_id, method)
method_key(account_id, method) == account_id \o <<58>> \o method

\* is_callable(account_id, method) -> i32
is_callable(account_id, method) ==
    IF method_key(account_id, method) \in DOMAIN contract_methods THEN 1 ELSE 0

NoLast ==
    [seq |-> 0, kind |-> "none", account |-> <<>>, contract |-> <<>>, method |-> <<>>,
     func |-> "none", outcome |-> [ok |-> FALSE, data |-> <<>>],
     wslice |-> <<0, 0, 0, 0>>, ptr_before |-> 0, ctx_before |-> NoCtx]

NoReq == [account |-> <<>>, contract |-> <<>>, method |-> <<>>, data |-> <<>>]

NoRet == [set |-> FALSE, ok |-> FALSE, data |-> <<>>]

NoCallable == [set |-> FALSE, account |-> <<>>, method |-> <<>>, ret |-> 0, known |-> FALSE]

NoRunIn == [n |-> 0, pending |-> FALSE, ctx_addr |-> 0, ctx_size |-> 0,
            args_addr |-> 0, args_size |-> 0, ctx_buf |-> <<>>, args |-> <<>>]

NoRunOut == [n |-> 0, wslice |-> <<0, 0, 0, 0>>, off_before |-> 0,
             res |-> [ok |-> FALSE, data |-> <<>>]]

NoOp == [seq |-> 0, kind |-> "none", owner |-> <<>>, id |-> <<>>, key |-> <<>>,
         data |-> <<>>, ok |-> FALSE, ret |-> <<>>, keys |-> <<>>, had |-> FALSE]

\* the native state of a thread: its stack, and the history kept about it
ThreadOwn(st, reg, rq, la, rt, cr, ns, nc, ri, ac, ro, pa, o, wr) ==
    [stack |-> st, registered |-> reg, req |-> rq, last |-> la, ret |-> rt,
     callable_ret |-> cr, nsetup |-> ns, ncalls |-> nc, run_in |-> ri, app_calls |-> ac,
     run_out |-> ro, panicked |-> pa, op |-> o, written |-> wr]

\* a thread that has not run yet
ThreadOwnInit ==
    ThreadOwn(<<>>, {}, NoReq, NoLast, NoRet, NoCallable, 0, 0, NoRunIn, <<>>, NoRunOut,
              FALSE, NoOp, EmptyMap)

\* ThreadData::default()
ThreadData_default ==
    [memory |-> MemoryInit, app_ctx |-> 0, accounts |-> EmptyMap,
     contract_methods |-> EmptyMap]

\* the threads of the test process
Threads == {1, 2}

\* no codec evaluation
NoCalc == [kind |-> "none"]

\* the state of the process when its first thread starts, but for calc
InitHost ==
    /\ thread = 1
    /\ tls = [t \in Threads |-> ThreadData_default]
    /\ parked = [t \in Threads |-> [data |-> ThreadData_default, own |-> ThreadOwnInit]]
    /\ nswitch = 0
    /\ handed = <<>>
    /\ memory = MemoryInit
    /\ app_ctx = 0
    /\ stack = <<>>
    /\ accounts = EmptyMap
    /\ contract_methods = EmptyMap
    /\ registered = {}
    /\ req = NoReq
    /\ last = NoLast
    /\ ret = NoRet
    /\ callable_ret = NoCallable
    /\ nsetup = 0
    /\ ncalls = 0
    /\ run_in = NoRunIn
    /\ app_calls = <<>>
    /\ run_out = NoRunOut
    /\ panicked = FALSE
    /\ op = NoOp
    /\ written = EmptyMap

\* ThreadData::default()
Init == InitHost /\ calc = NoCalc

\* The thread runs host code only while no assertion has failed and nothing
\* has panicked.
Running == ~memory.oom /\ ~panicked

\* set_contract_method(account_id, method, func)
set_contract_method(account_id, method, func) ==
    /\ contract_methods' = MapPut(contract_methods, method_key(account_id, method), func)
    /\ registered' = registered \cup {<<account_id, method, func>>}

\* set_contract_hash(account_id, contract)
set_contract_hash(account_id, contract) ==
    accounts' = [get_account(accounts, account_id) EXCEPT ![account_id].contract = contract]

\* Test harness, before the root context is installed: register a handler
\* drawn from funcs.
RegisterStep(methods, funcs) ==
    \E id \in AccountIds, method \in methods, func \in funcs :
        /\ Running /\ stack = <<>>
        /\ set_contract_method(id, method, func)
        /\ UNCHANGED <<memory, app_ctx, stack, accounts, req, last, ret, callable_ret, ncalls>>
        /\ UNCHANGED <<run_vars, store_vars, aside_vars>>

SetContractMethod == RegisterStep({MethC}, {"f1"}) /\ UNCHANGED nsetup

\* Test harness, before the root context is installed: set an account's code.
SetContractHash ==
    \E id \in AccountIds, contract \in ContractCodes :
        /\ Running /\ stack = <<>>
        /\ set_contract_hash(id, contract)
        /\ UNCHANGED <<memory, app_ctx, stack, contract_methods, registered, req, last, ret,
                       callable_ret, nsetup, ncalls>>
        /\ UNCHANGED <<run_vars, store_vars, aside_vars>>

\* Test harness: create the root context and install it (create_app_context,
\* set_app_ctx / call_wrap); the root code then runs in frame 1.
Start ==
    \E owner \in RootOwners :
        /\ Running /\ stack = <<>>
        /\ stack' = <<[ctx |-> create_app_context(owner, UserX), func |-> "root",
                       args |-> <<>>, prev_ctx |-> 0, contract |-> <<>>,
                       entry_ptr |-> 0, entry_ctx |-> NoCtx]>>
        /\ app_ctx' = 1
        /\ UNCHANGED <<memory, accounts, contract_methods, registered, req, last, ret,
                       callable_ret, nsetup, ncalls>>
        /\ UNCHANGED <<run_vars, store_vars, aside_vars>>

-----------------------------------------------------------------------------
(* Call dispatch (not_wasm.rs: hf_call, hf_s_call; host_wrap.rs: call)     *)

\* A failed assertion in write_mem unwinds the thread: nothing else changes.
Abort(m) ==
    /\ memory' = m
    /\ UNCHANGED <<app_ctx, stack, accounts, contract_methods, registered, last>>

\* Faulty variant: the lookup goes through get_account, which inserts a default
\* account for an unknown id.
accounts_get_inserting(accs, account) ==
    [accs |-> get_account(accs, account),
     found |-> account \in DOMAIN accs,
     contract |-> IF account \in DOMAIN accs THEN accs[account].contract ELSE <<>>]

\* dat.borrow().accounts.get(account): a lookup that inserts nothing
accounts_get(accs, account) ==
    [accs |-> accs,
     found |-> account \in DOMAIN accs,
     contract |-> IF account \in DOMAIN accs THEN accs[account].contract ELSE <<>>]

\* the fingerprint check: Some(acc) => acc.contract == contract, None => false
contract_matches(entry, contract) == entry.found /\ entry.contract = contract

\* Faulty variant: the caller is inherited from the parent instead of being
\* the parent's owner.
child_context_inherit_caller(ctx, account, method) ==
    [depth |-> (ctx.depth + 1) % 65536, network |-> ctx.network, owner |-> account,
     caller |-> ctx.caller, method |-> method, origin |-> ctx.origin]

\* Faulty variant: the origin is taken from the immediate caller.
child_context_origin_from_caller(ctx, account, method) ==
    [depth |-> (ctx.depth + 1) % 65536, network |-> ctx.network, owner |-> account,
     caller |-> ctx.owner, method |-> method, origin |-> ctx.caller]

\* the child context built by hf_s_call; depth is a u16, and ctx.depth + 1
\* wraps where the build does not check the addition
child_context(ctx, account, method) ==
    [depth |-> (ctx.depth + 1) % 65536, network |-> ctx.network, owner |-> account,
     caller |-> ctx.owner, method |-> method, origin |-> ctx.origin]

\* return AppOutput::ko(msg).into() before any handler is looked up or run
hf_s_call_exit(m, accs, kind, msg, account, contract, method) ==
    LET r == AppOutput_into(m, AppOutput_ko(msg)) IN
    IF r.mem.oom THEN Abort(r.mem)
    ELSE /\ memory' = r.mem
         /\ accounts' = accs
         /\ last' = [seq |-> last.seq + 1, kind |-> kind, account |-> account,
                     contract |-> contract, method |-> method, func |-> "none",
                     outcome |-> [ok |-> FALSE, data |-> msg], wslice |-> r.wslice,
                     ptr_before |-> app_ctx, ctx_before |-> get_app_ctx]
         /\ UNCHANGED <<app_ctx, stack, contract_methods, registered>>

\* the context installed while the handler runs: set_app_ctx(&ctx)
hf_s_call_enter(m, accs, func, child, args, contract) ==
    /\ memory' = m
    /\ accounts' = accs
    /\ stack' = Append(stack, [ctx |-> child, func |-> func, args |-> args,
                               prev_ctx |-> app_ctx, contract |-> contract,
                               entry_ptr |-> app_ctx, entry_ctx |-> get_app_ctx])
    /\ app_ctx' = Len(stack) + 1
    /\ last' = [NoLast EXCEPT !.seq = last.seq]
    /\ UNCHANGED <<contract_methods, registered>>

\* depth: ctx.depth + 1 for ctx.depth = u16::MAX: a build with overflow checks
\* panics here, before the handler is invoked; another build goes on with the
\* wrapped depth
hf_s_call_depth_overflow(m, accs, func, child, args, contract) ==
    \/ /\ memory' = m
       /\ accounts' = accs
       /\ panicked' = TRUE
       /\ UNCHANGED <<app_ctx, stack, contract_methods, registered, last>>
    \/ /\ hf_s_call_enter(m, accs, func, child, args, contract)
       /\ UNCHANGED panicked

\* hf_s_call up to the invocation of the handler; m is the memory at entry
hf_s_call(m, account_addr, account_size, contract_addr, contract_size, method_addr, method_size, data_addr, data_size) ==
    LET ctx == get_app_ctx
        account == slice_from_mem(m, account_addr, account_size)
        contract == slice_from_mem(m, contract_addr, contract_size)
        method == slice_from_mem(m, method_addr, method_size)
        args == slice_from_mem(m, data_addr, data_size)
        method_name == method_key(account, method)
        entry == IF contract # <<>> THEN accounts_get(accounts, account)
                 ELSE [accs |-> accounts, found |-> FALSE, contract |-> <<>>]
    IN IF m.oom THEN Abort(m) /\ UNCHANGED panicked
       ELSE IF contract # <<>> /\ ~contract_matches(entry, contract)
       THEN /\ hf_s_call_exit(m, entry.accs, "incompatible", MsgIncompatible,
                              account, contract, method)
            /\ UNCHANGED panicked
       ELSE IF method_name \notin DOMAIN contract_methods
       THEN /\ hf_s_call_exit(m, entry.accs, "not_found", MsgMethodNotFound,
                              account, contract, method)
            /\ UNCHANGED panicked
       ELSE /\ memory' = m
            /\ IF ctx.depth = 65535
               THEN hf_s_call_depth_overflow(m, entry.accs, contract_methods[method_name],
                                             child_context(ctx, account, method), args,
                                             contract)
               ELSE /\ hf_s_call_enter(m, entry.accs, contract_methods[method_name],
                                       child_context(ctx, account, method), args, contract)
                    /\ UNCHANGED panicked

\* Faulty variant: a contract size of 1 for the empty buffer.
hf_call_one_byte_code(m, account_addr, account_size, method_addr, method_size, data_addr, data_size) ==
    LET w == slice_to_mem(m, <<>>) IN
    hf_s_call(w.mem, account_addr, account_size, w.addr, 1,
              method_addr, method_size, data_addr, data_size)

\* hf_call: an empty contract buffer, contract_size 0
hf_call(m, account_addr, account_size, method_addr, method_size, data_addr, data_size) ==
    LET w == slice_to_mem(m, <<>>) IN
    hf_s_call(w.mem, account_addr, account_size, w.addr, 0,
              method_addr, method_size, data_addr, data_size)

\* Faulty variant: the saved context is restored only when the handler succeeded.
restored_ctx_skip_on_err(fr, outcome) == IF outcome.ok THEN fr.prev_ctx ELSE app_ctx

\* the context restored when the handler has returned: set_app_ctx(prev_ctx)
restored_ctx(fr, outcome) == fr.prev_ctx

\* Faulty variant: the entity table is emptied when the handler returned Err.
hf_s_call_finish_undo(m, accs, outcome) ==
    LET t == Len(stack)
        fr == stack[t]
        out == IF outcome.ok THEN AppOutput_ok(outcome.data) ELSE AppOutput_ko(outcome.data)
        r == AppOutput_into(m, out)
    IN IF r.mem.oom
       THEN /\ memory' = r.mem
            /\ accounts' = accs
            /\ UNCHANGED <<app_ctx, stack, contract_methods, registered, last>>
       ELSE /\ memory' = r.mem
            /\ accounts' = IF outcome.ok THEN accs ELSE [id \in DOMAIN accs |-> AccountDefault]
            /\ app_ctx' = restored_ctx(fr, outcome)
            /\ stack' = SubSeq(stack, 1, t - 1)
            /\ last' = [seq |-> last.seq + 1, kind |-> "returned", account |-> fr.ctx.owner,
                        contract |-> fr.contract, method |-> fr.ctx.method,
                        func |-> fr.func, outcome |-> outcome, wslice |-> r.wslice,
                        ptr_before |-> fr.entry_ptr, ctx_before |-> fr.entry_ctx]
            /\ UNCHANGED <<contract_methods, registered>>

\* hf_s_call from the handler's return on, the handler having left the memory m
\* and the accounts accs: wrap the outcome, restore the context
hf_s_call_finish(m, accs, outcome) ==
    LET t == Len(stack)
        fr == stack[t]
        out == IF outcome.ok THEN AppOutput_ok(outcome.data) ELSE AppOutput_ko(outcome.data)
        r == AppOutput_into(m, out)
    IN IF r.mem.oom
       THEN /\ memory' = r.mem
            /\ accounts' = accs
            /\ UNCHANGED <<app_ctx, stack, contract_methods, registered, last>>
       ELSE /\ memory' = r.mem
            /\ accounts' = accs
            /\ app_ctx' = restored_ctx(fr, outcome)
            /\ stack' = SubSeq(stack, 1, t - 1)
            /\ last' = [seq |-> last.seq + 1, kind |-> "returned", account |-> fr.ctx.owner,
                        contract |-> fr.contract, method |-> fr.ctx.method,
                        func |-> fr.func, outcome |-> outcome, wslice |-> r.wslice,
                        ptr_before |-> fr.entry_ptr, ctx_before |-> fr.entry_ctx]
            /\ UNCHANGED <<contract_methods, registered>>

\* the same for a handler that is not modelled further: it leaves the memory and
\* the accounts as they are
hf_s_call_return(outcome) == hf_s_call_finish(memory, accounts, outcome)

\* Faulty variant: the error message of a failed result is dropped.
call_result_no_message(m, wslice) ==
    LET result == AppOutput_deserialize(slice_from_wslice(m, wslice)) IN
    IF result.ok /\ result.val.success
    THEN [set |-> TRUE, ok |-> TRUE, data |-> result.val.data]
    ELSE [set |-> TRUE, ok |-> FALSE, data |-> <<>>]

\* host_wrap::call after hf_call has returned: decode the AppOutput
call_result(m, wslice) ==
    LET buf == slice_from_wslice(m, wslice)
        result == AppOutput_deserialize(buf)
    IN IF ~result.ok
       THEN [set |-> TRUE, ok |-> FALSE,
             data |-> <<100, 101, 115, 101, 114, 105, 97, 108, 105, 122, 97, 116, 105,
                        111, 110, 32, 102, 97, 105, 108, 117, 114, 101>>]
       ELSE IF result.val.success
       THEN [set |-> TRUE, ok |-> TRUE, data |-> result.val.data]
       ELSE [set |-> TRUE, ok |-> FALSE, data |-> from_utf8_lossy(result.val.data)]

\* what the wrapper hands to the handler once the host function has returned
wrapper_ret == IF last'.seq # last.seq THEN call_result(memory', last'.wslice) ELSE NoRet

\* host_wrap::call(account, method, data)
call(account, method, data) ==
    LET a == slice_to_mem(memory, account)
        b == slice_to_mem(a.mem, method)
        c == slice_to_mem(b.mem, data)
    IN /\ hf_call(c.mem, a.addr, Len(account), b.addr, Len(method), c.addr, Len(data))
       /\ ret' = wrapper_ret
       /\ req' = [account |-> account, contract |-> <<>>, method |-> method, data |-> data]

\* the contract-scoped wrapper: as call, with the expected contract code
s_call(account, contract, method, data) ==
    LET a == slice_to_mem(memory, account)
        k == slice_to_mem(a.mem, contract)
        b == slice_to_mem(k.mem, method)
        c == slice_to_mem(b.mem, data)
    IN /\ hf_s_call(c.mem, a.addr, Len(account), k.addr, Len(contract),
                    b.addr, Len(method), c.addr, Len(data))
       /\ ret' = wrapper_ret
       /\ req' = [account |-> account, contract |-> contract, method |-> method, data |-> data]

\* The running handler (or the root code) calls another account's method.
CallStep(methods) ==
    \E account \in AccountIds, method \in methods, data \in CallData :
        /\ Running /\ stack # <<>> /\ ncalls < MaxCalls
        /\ call(account, method, data)
        /\ ncalls' = ncalls + 1
        /\ UNCHANGED <<callable_ret, nsetup>>
        /\ UNCHANGED <<run_vars, op, written, aside_vars>>

Call == CallStep({MethC})

\* The running handler calls a method, stating the contract code it expects.
SCall ==
    \E account \in AccountIds, contract \in ExpectedCodes,
       method \in {MethC}, data \in CallData :
        /\ Running /\ stack # <<>> /\ ncalls < MaxCalls
        /\ s_call(account, contract, method, data)
        /\ ncalls' = ncalls + 1
        /\ UNCHANGED <<callable_ret, nsetup>>
        /\ UNCHANGED <<run_vars, op, written, aside_vars>>

\* The running handler returns Ok(bytes) or Err(msg) to hf_s_call.
Return ==
    \E outcome \in Outcomes :
        /\ Running /\ Len(stack) >= 2
        /\ hf_s_call_return(outcome)
        /\ ret' = wrapper_ret
        /\ UNCHANGED <<req, callable_ret, nsetup, ncalls>>
        /\ UNCHANGED <<run_vars, store_vars, aside_vars>>

Next == SetContractMethod \/ SetContractHash \/ Start \/ Call \/ SCall \/ Return

Spec == Init /\ [][Next]_vars

-----------------------------------------------------------------------------
(* Handler registry (not_wasm.rs: set_contract_method, is_callable)        *)

\* Test harness, before the root context is installed: register a handler
\* for any account id and any method name.
SetContractMethodAny ==
    /\ nsetup < MaxSetup
    /\ RegisterStep(MethodNames, ContractFuncs)
    /\ nsetup' = nsetup + 1

\* The harness or the running handler asks whether a method is callable.
\* known records whether that very pair has been registered.
IsCallable ==
    \E account_id \in AccountIds, method \in MethodNames :
        /\ Running
        /\ callable_ret' = [set |-> TRUE, account |-> account_id, method |-> method,
                            ret |-> is_callable(account_id, method),
                            known |-> \E func \in ContractFuncs :
                                         <<account_id, method, func>> \in registered]
        /\ UNCHANGED <<memory, app_ctx, stack, accounts, contract_methods, registered,
                       req, last, ret, nsetup, ncalls>>
        /\ UNCHANGED <<run_vars, store_vars, aside_vars>>

\* A handler (or the root code) calls any method of any account.
CallAny == CallStep(MethodNames)

NextReg == SetContractMethodAny \/ IsCallable \/ Start \/ CallAny \/ Return

SpecReg == Init /\ [][NextReg]_vars

-----------------------------------------------------------------------------
(* Entry point (export.rs: run; macros.rs: app_export)                     *)

\* the functions named in app_export!: "foo", "bar"
ExportedFuns == {<<102, 111, 111>>, <<98, 97, 114>>}

\* format!("method `{}` not found", ctx.method)
MsgNoSuchMethod(method) ==
    <<109, 101, 116, 104, 111, 100, 32, 96>> \o method
    \o <<96, 32, 110, 111, 116, 32, 102, 111, 117, 110, 100>>

\* the contexts the host hands to run: the methods "foo", "bar" and "z"
RunContexts ==
    [depth : {0, 300}, network : {Skynet}, owner : {AcctA}, caller : {UserX},
     method : ExportedFuns \cup {<<122>>}, origin : {UserX}]

ValidCtxBuffers == {AppInput_serialize(c) : c \in RunContexts}

\* a context of RunContexts, used to build the malformed buffers
SampleCtx == [depth |-> 0, network |-> Skynet, owner |-> AcctA, caller |-> UserX,
              method |-> <<102, 111, 111>>, origin |-> UserX]

\* the method bytes of tests::run_bad_utf8_method
BadUtf8Method == <<240, 159, 146>>

\* Buffers that are no encoding of an AppInput: a method that is not UTF-8, an
\* array of five fields, an encoding cut one byte short, nil, the empty buffer.
MalformedCtxBuffers ==
    { AppInput_serialize([SampleCtx EXCEPT !.method = BadUtf8Method]),
      <<149>> \o Tail(AppInput_serialize(SampleCtx)),
      SubSeq(AppInput_serialize(SampleCtx), 1, Len(AppInput_serialize(SampleCtx)) - 1),
      <<192>>,
      <<>> }

\* argument buffers: nil, and a positive fixint
RunArgs == {<<192>>, <<7>>}

\* Faulty variant: the catch-all arm runs the first exported function.
app_run_catch_all_runs(ctx, buf, outcome) ==
    [fun |-> IF ctx.method \in ExportedFuns THEN ctx.method ELSE <<102, 111, 111>>,
     res |-> outcome]

\* app_run as app_export! generates it: the function named ctx.method runs and
\* yields outcome; any other method name is an error.
app_run(ctx, buf, outcome) ==
    IF ctx.method \in ExportedFuns
    THEN [fun |-> ctx.method, res |-> outcome]
    ELSE [fun |-> <<>>, res |-> [ok |-> FALSE, data |-> MsgNoSuchMethod(ctx.method)]]

\* run after app_run has returned r: the result is encoded and written; calls is
\* the invocation of app_run that was made.
run_result(m, ctx, slice, r) ==
    [out |-> AppOutput_into(m, IF r.res.ok THEN AppOutput_ok(r.res.data)
                                           ELSE AppOutput_ko(r.res.data)),
     calls |-> <<[ctx |-> ctx, args |-> slice, fun |-> r.fun]>>,
     res |-> r.res]

\* run once the context buffer has been decoded into ctx
run_decoded(m, ctx, slice, outcome) ==
    IF ~ctx.ok
    THEN [out |-> AppOutput_into(m, AppOutput_ko(MsgMalformedInput)),
          calls |-> <<>>, res |-> [ok |-> FALSE, data |-> MsgMalformedInput]]
    ELSE run_result(m, ctx.val, slice, app_run(ctx.val, slice, outcome))

\* Faulty variant: the handler is given the context buffer as its arguments.
run_args_from_ctx(m, ctx_addr, ctx_size, args_addr, args_size, outcome) ==
    run_decoded(m, AppInput_deserialize(slice_from_mem(m, ctx_addr, ctx_size)),
                slice_from_mem(m, ctx_addr, ctx_size), outcome)

\* run(ctx_addr, ctx_size, args_addr, args_size) -> WasmSlice.  out is the
\* memory and the handle after the result has been written, calls the
\* invocations of app_run made, res the Result matched at the end.
run(m, ctx_addr, ctx_size, args_addr, args_size, outcome) ==
    run_decoded(m, AppInput_deserialize(slice_from_mem(m, ctx_addr, ctx_size)),
                slice_from_mem(m, args_addr, args_size), outcome)

\* The host (tests::run_wrapper) writes a context buffer and an argument
\* buffer into the memory.
RunInput ==
    \E input_buf \in ValidCtxBuffers \cup MalformedCtxBuffers, args \in RunArgs :
        /\ Running /\ ~run_in.pending /\ run_in.n < MaxRuns
        /\ LET i == slice_to_mem(memory, input_buf)
               a == slice_to_mem(i.mem, args)
           IN /\ memory' = a.mem
              /\ run_in' = [n |-> run_in.n + 1, pending |-> TRUE,
                            ctx_addr |-> i.addr, ctx_size |-> Len(input_buf),
                            args_addr |-> a.addr, args_size |-> Len(args),
                            ctx_buf |-> input_buf, args |-> args]
        /\ UNCHANGED <<app_calls, run_out>>
        /\ UNCHANGED <<engine_vars, store_vars, aside_vars>>

\* The host invokes the entry point on the buffers it has written.
Run ==
    \E outcome \in Outcomes :
        /\ Running /\ run_in.pending
        /\ LET r == run(memory, run_in.ctx_addr, run_in.ctx_size,
                        run_in.args_addr, run_in.args_size, outcome)
           IN /\ memory' = r.out.mem
              /\ app_calls' = app_calls \o r.calls
              /\ run_out' = [n |-> run_in.n, wslice |-> r.out.wslice,
                             off_before |-> memory.off, res |-> r.res]
        /\ run_in' = [run_in EXCEPT !.pending = FALSE]
        /\ UNCHANGED <<engine_vars, store_vars, aside_vars>>

NextRun == RunInput \/ Run

SpecRun == Init /\ [][NextRun]_vars

-----------------------------------------------------------------------------
(* Keyed data (not_wasm.rs: hf_store_data, hf_load_data, hf_remove_data,   *)
(* hf_get_keys; host_wrap.rs: store_data, load_data, remove_data,          *)
(* get_data_keys).  The operators take the memory and the account table    *)
(* and yield them as the call leaves them.                                 *)

\* keys "k" and "kq"
DataKeys == {<<107>>, <<107, 113>>}

\* the values a handler stores: empty, and two non-empty byte strings
DataValues == {<<>>, <<1>>, <<2>>}

\* search patterns: "*", "k*", "kq*", "", "k", and "é" (two bytes of UTF-8)
Patterns == {<<42>>, <<107, 42>>, <<107, 113, 42>>, <<>>, <<107>>, <<195, 169>>}

\* "last char of search pattern must be '*'"
MsgLastChar ==
    <<108, 97, 115, 116, 32, 99, 104, 97, 114, 32, 111, 102, 32, 115, 101, 97, 114, 99,
      104, 32, 112, 97, 116, 116, 101, 114, 110, 32, 109, 117, 115, 116, 32, 98, 101,
      32, 39, 42, 39>>

MapRemove(f, key) == [k \in DOMAIN f \ {key} |-> f[k]]

\* get_account_data(src_id, key): the table after the lazy insertion, and the value
get_account_data(accs, src_id, key) ==
    [accs |-> get_account(accs, src_id),
     val |-> IF src_id \in DOMAIN accs /\ key \in DOMAIN accs[src_id].data
             THEN accs[src_id].data[key] ELSE <<>>]

\* Faulty variant: an empty value is inserted like any other.
set_account_data_keep_empty(accs, dst_id, key, data) ==
    [get_account(accs, dst_id) EXCEPT ![dst_id].data = MapPut(@, key, data)]

\* set_account_data(dst_id, key, data): empty data removes the key
set_account_data(accs, dst_id, key, data) ==
    [get_account(accs, dst_id) EXCEPT
        ![dst_id].data = IF data = <<>> THEN MapRemove(@, key) ELSE MapPut(@, key, data)]

\* get_account_keys(src_id): the table after the lazy insertion, and the key set
get_account_keys(accs, src_id) ==
    [accs |-> get_account(accs, src_id),
     keys |-> IF src_id \in DOMAIN accs THEN DOMAIN accs[src_id].data ELSE {}]

\* Faulty variant: the data goes to the account of the caller.
hf_store_data_to_caller(m, accs, key_addr, key_size, data_addr, data_size) ==
    [mem |-> m,
     accs |-> set_account_data(accs, get_app_ctx.caller,
                               slice_from_mem(m, key_addr, key_size),
                               slice_from_mem(m, data_addr, data_size))]

\* hf_store_data(key_addr, key_size, data_addr, data_size)
hf_store_data(m, accs, key_addr, key_size, data_addr, data_size) ==
    [mem |-> m,
     accs |-> set_account_data(accs, get_app_ctx.owner,
                               slice_from_mem(m, key_addr, key_size),
                               slice_from_mem(m, data_addr, data_size))]

\* hf_remove_data(key_addr, key_size)
hf_remove_data(m, accs, key_addr, key_size) ==
    [mem |-> m,
     accs |-> set_account_data(accs, get_app_ctx.owner,
                               slice_from_mem(m, key_addr, key_size), <<>>)]

\* the buffer found by get_account_data, written by slice_to_wslice
hf_load_data_out(found, w) == [mem |-> w.mem, accs |-> found.accs, wslice |-> w.wslice]

\* hf_load_data(key_addr, key_size) -> WasmSlice
hf_load_data(m, accs, key_addr, key_size) ==
    hf_load_data_out(
        get_account_data(accs, get_app_ctx.owner, slice_from_mem(m, key_addr, key_size)),
        slice_to_wslice(m, get_account_data(accs, get_app_ctx.owner,
                                            slice_from_mem(m, key_addr, key_size)).val))

\* host_wrap::store_data(key, buf): the data buffer is written first
store_data_at(d, k, accs, key, buf) ==
    IF k.mem.oom THEN [mem |-> k.mem, accs |-> accs]
    ELSE hf_store_data(k.mem, accs, k.addr, Len(key), d.addr, Len(buf))

store_data(m, accs, key, buf) ==
    store_data_at(slice_to_mem(m, buf), slice_to_mem(slice_to_mem(m, buf).mem, key),
                  accs, key, buf)

\* host_wrap::remove_data(key)
remove_data_at(k, accs, key) ==
    IF k.mem.oom THEN [mem |-> k.mem, accs |-> accs]
    ELSE hf_remove_data(k.mem, accs, k.addr, Len(key))

remove_data(m, accs, key) == remove_data_at(slice_to_mem(m, key), accs, key)

\* host_wrap::load_data(key): val is slice_from_wslice(wslice).to_vec()
load_data_read(r) ==
    [mem |-> r.mem, accs |-> r.accs, val |-> slice_from_wslice(r.mem, r.wslice)]

load_data_at(k, accs, key) ==
    IF k.mem.oom THEN [mem |-> k.mem, accs |-> accs, val |-> <<>>]
    ELSE load_data_read(hf_load_data(k.mem, accs, k.addr, Len(key)))

load_data(m, accs, key) == load_data_at(slice_to_mem(m, key), accs, key)

\* str::is_char_boundary: the start, the end, or a byte that continues no character
is_char_boundary(str, index) ==
    \/ index = 0
    \/ index = Len(str)
    \/ index < Len(str) /\ ~IsCont(str[index + 1])

\* str::starts_with
starts_with(str, prefix) ==
    Len(prefix) <= Len(str) /\ SubSeq(str, 1, Len(prefix)) = prefix

RECURSIVE EncStrs(_)
\* the elements of a Vec<String>, each as a MessagePack str
EncStrs(strs) ==
    IF strs = <<>> THEN <<>>
    ELSE EncStrHeader(Len(Head(strs))) \o Head(strs) \o EncStrs(Tail(strs))

\* rmp_serialize(&Vec<String>): fixarray (0x90 | len) of str
VecString_serialize(strs) == <<144 + Len(strs)>> \o EncStrs(strs)

\* rmp_deserialize::<Vec<String>>
VecString_deserialize(b) ==
    IF Len(b) >= 1 /\ b[1] >= 144 /\ b[1] <= 159 THEN DecStrs(b, 2, b[1] - 144) ELSE DecFail

\* the orders in which a HashMap may yield the keys of the set S
Orderings(S) ==
    {o \in [1..Cardinality(S) -> S] : \A k \in S : \E i \in 1..Cardinality(S) : o[i] = k}

\* the keys that pass the filter of hf_get_keys, in the order given
filter_keys(keys, pattern) ==
    SelectSeq(keys, LAMBDA key :
        \/ SubSeq(pattern, 1, Len(pattern) - 1) = <<>>
        \/ starts_with(key, SubSeq(pattern, 1, Len(pattern) - 1)))

\* hf_get_keys once the output is known: serialize it and write it
hf_get_keys_out(m, accs, output) ==
    [panic |-> FALSE, mem |-> slice_to_wslice(m, AppOutput_serialize(output)).mem,
     accs |-> accs, wslice |-> slice_to_wslice(m, AppOutput_serialize(output)).wslice]

\* Faulty variant: the keys are returned without filtering.
hf_get_keys_unfiltered(m, accs, pattern, keys) ==
    IF pattern = <<>>
    THEN hf_get_keys_out(m, accs, [success |-> FALSE, data |-> MsgLastChar])
    ELSE IF ~is_char_boundary(pattern, Len(pattern) - 1)
    THEN [panic |-> TRUE, mem |-> m, accs |-> accs, wslice |-> <<0, 0, 0, 0>>]
    ELSE IF SubSeq(pattern, Len(pattern), Len(pattern)) # <<42>>
    THEN hf_get_keys_out(m, accs, [success |-> FALSE, data |-> MsgLastChar])
    ELSE hf_get_keys_out(m, get_account_keys(accs, get_app_ctx.owner).accs,
                         [success |-> TRUE, data |-> VecString_serialize(keys)])

\* hf_get_keys on the pattern read from memory; keys is the owner's key set in
\* the order the HashMap yields it.  Slicing the pattern at len - 1 panics when
\* that index is not a character boundary.
hf_get_keys(m, accs, pattern, keys) ==
    IF pattern = <<>>
    THEN hf_get_keys_out(m, accs, [success |-> FALSE, data |-> MsgLastChar])
    ELSE IF ~is_char_boundary(pattern, Len(pattern) - 1)
    THEN [panic |-> TRUE, mem |-> m, accs |-> accs, wslice |-> <<0, 0, 0, 0>>]
    ELSE IF SubSeq(pattern, Len(pattern), Len(pattern)) # <<42>>
    THEN hf_get_keys_out(m, accs, [success |-> FALSE, data |-> MsgLastChar])
    ELSE hf_get_keys_out(m, get_account_keys(accs, get_app_ctx.owner).accs,
                         [success |-> TRUE,
                          data |-> VecString_serialize(filter_keys(keys, pattern))])

\* the Result made of the decoded key list v
get_data_keys_list(v) ==
    [ok |-> v.ok, keys |-> v.val, msg |-> IF v.ok THEN <<>> ELSE MsgDeserialization]

\* get_data_keys after hf_get_keys has returned: decode the AppOutput, then the list
get_data_keys_decode(res) ==
    IF ~res.ok THEN [ok |-> FALSE, keys |-> <<>>, msg |-> MsgDeserialization]
    ELSE IF res.val.success
    THEN get_data_keys_list(VecString_deserialize(res.val.data))
    ELSE [ok |-> FALSE, keys |-> <<>>, msg |-> from_utf8_lossy(res.val.data)]

get_data_keys_result(r) ==
    IF r.panic \/ r.mem.oom
    THEN [panic |-> r.panic, mem |-> r.mem, accs |-> r.accs,
          res |-> [ok |-> FALSE, keys |-> <<>>, msg |-> <<>>]]
    ELSE [panic |-> FALSE, mem |-> r.mem, accs |-> r.accs,
          res |-> get_data_keys_decode(
                      AppOutput_deserialize(slice_from_wslice(r.mem, r.wslice)))]

get_data_keys_at(p, accs, pattern, keys) ==
    IF p.mem.oom
    THEN [panic |-> FALSE, mem |-> p.mem, accs |-> accs,
          res |-> [ok |-> FALSE, keys |-> <<>>, msg |-> <<>>]]
    ELSE get_data_keys_result(
             hf_get_keys(p.mem, accs, slice_from_mem(p.mem, p.addr, Len(pattern)), keys))

\* host_wrap::get_data_keys(pattern)
get_data_keys(m, accs, pattern, keys) ==
    get_data_keys_at(slice_to_mem(m, pattern), accs, pattern, keys)

\* the account that owns the context of the running handler
RunningOwner == stack[Len(stack)].ctx.owner

\* the keyed data and the assets of an account; empty when it does not exist
DataOf(accs, id) == IF id \in DOMAIN accs THEN accs[id].data ELSE EmptyMap

AssetsOf(accs, id) == IF id \in DOMAIN accs THEN accs[id].assets ELSE EmptyMap

\* a guest step of the storage specifications may be taken
MayOperate == Running /\ stack # <<>> /\ op.seq + ncalls < MaxOps

\* what a keyed-data step leaves alone
DataFrame ==
    /\ UNCHANGED <<app_ctx, stack, contract_methods, registered, req, last, ret,
                   callable_ret, nsetup, ncalls>>
    /\ UNCHANGED <<run_vars, aside_vars>>

\* Test harness, before the root context is installed: preset a value.
SetAccountData ==
    \E id \in AccountIds, key \in DataKeys :
        /\ Running /\ stack = <<>>
        /\ accounts' = set_account_data(accounts, id, key, <<1>>)
        /\ written' = MapPut(written, <<id, key>>, <<1>>)
        /\ UNCHANGED <<memory, panicked, op>>
        /\ DataFrame

\* The running handler stores buf under key.
StoreStep(keys, values) ==
    \E key \in keys, buf \in values :
        /\ MayOperate
        /\ memory' = store_data(memory, accounts, key, buf).mem
        /\ accounts' = store_data(memory, accounts, key, buf).accs
        /\ op' = [NoOp EXCEPT !.seq = op.seq + 1, !.kind = "store",
                              !.owner = RunningOwner, !.key = key, !.data = buf,
                              !.had = key \in DOMAIN DataOf(accounts, RunningOwner)]
        /\ written' = IF memory'.oom THEN written
                      ELSE MapPut(written, <<RunningOwner, key>>, buf)
        /\ UNCHANGED panicked
        /\ DataFrame

\* The running handler removes key.
RemoveStep(keys) ==
    \E key \in keys :
        /\ MayOperate
        /\ memory' = remove_data(memory, accounts, key).mem
        /\ accounts' = remove_data(memory, accounts, key).accs
        /\ op' = [NoOp EXCEPT !.seq = op.seq + 1, !.kind = "remove",
                              !.owner = RunningOwner, !.key = key,
                              !.had = key \in DOMAIN DataOf(accounts, RunningOwner)]
        /\ written' = IF memory'.oom THEN written
                      ELSE MapPut(written, <<RunningOwner, key>>, <<>>)
        /\ UNCHANGED panicked
        /\ DataFrame

\* The running handler loads the value of key.
LoadStep(keys) ==
    \E key \in keys :
        /\ MayOperate
        /\ memory' = load_data(memory, accounts, key).mem
        /\ accounts' = load_data(memory, accounts, key).accs
        /\ op' = [NoOp EXCEPT !.seq = op.seq + 1, !.kind = "load",
                              !.owner = RunningOwner, !.key = key,
                              !.ret = load_data(memory, accounts, key).val]
        /\ UNCHANGED <<panicked, written>>
        /\ DataFrame

\* The running handler lists its keys; the HashMap yields them in some order.
GetKeys ==
    /\ MayOperate
    /\ \E pattern \in Patterns :
        \E keys \in Orderings(get_account_keys(accounts, RunningOwner).keys) :
            LET r == get_data_keys(memory, accounts, pattern, keys) IN
            /\ memory' = r.mem
            /\ accounts' = r.accs
            /\ panicked' = r.panic
            /\ op' = [NoOp EXCEPT !.seq = op.seq + 1, !.kind = "keys",
                                  !.owner = RunningOwner, !.key = pattern,
                                  !.ok = r.res.ok, !.ret = r.res.msg, !.keys = r.res.keys]
            /\ UNCHANGED written
            /\ DataFrame

\* a call made in the storage specifications counts as a guest step
DataCall == op.seq + ncalls < MaxOps /\ Call

StoreData == StoreStep({<<107>>}, DataValues)

RemoveData == RemoveStep({<<107>>})

LoadData == LoadStep({<<107>>})

NextData ==
    SetContractMethod \/ Start \/ DataCall \/ Return \/ StoreData \/ RemoveData \/ LoadData

\* keyed-data operations of handlers running under nested calls
SpecData == Init /\ [][NextData]_vars

StoreAnyKey == StoreStep(DataKeys, {<<>>, <<1>>})

RemoveAnyKey == RemoveStep(DataKeys)

NextKeys == SetAccountData \/ Start \/ StoreAnyKey \/ RemoveAnyKey \/ GetKeys

\* key listing over the keys of two accounts
SpecKeys == Init /\ [][NextKeys]_vars

-----------------------------------------------------------------------------
(* Asset records (not_wasm.rs: hf_load_asset, hf_store_asset;              *)
(* host_wrap.rs: load_asset, store_asset)                                  *)

\* the accounts whose asset records are read and written
AssetHolders == {AcctA, UserX}

\* raw asset values
AssetValues == {<<>>, <<1>>, <<2>>}

\* get_account_asset(src_id, asset): the table after the lazy insertion, and the
\* value, empty when there is no entry
get_account_asset(accs, src_id, asset) ==
    [accs |-> get_account(accs, src_id),
     val |-> IF src_id \in DOMAIN accs /\ asset \in DOMAIN accs[src_id].assets
             THEN accs[src_id].assets[asset] ELSE <<>>]

\* set_account_asset(dst_id, asset, value)
set_account_asset(accs, dst_id, asset, value) ==
    [get_account(accs, dst_id) EXCEPT ![dst_id].assets = MapPut(@, asset, value)]

\* the buffer found by get_account_asset, written by slice_to_wslice
hf_load_asset_out(found, w) == [mem |-> w.mem, accs |-> found.accs, wslice |-> w.wslice]

\* Faulty variant: the entry named src_id of the owner's account is read.
hf_load_asset_swapped(m, accs, owner, src_id_addr, src_id_size) ==
    hf_load_asset_out(
        get_account_asset(accs, owner, slice_from_mem(m, src_id_addr, src_id_size)),
        slice_to_wslice(m, get_account_asset(accs, owner,
                               slice_from_mem(m, src_id_addr, src_id_size)).val))

\* hf_load_asset(src_id_addr, src_id_size) -> WasmSlice; owner is ctx.owner
hf_load_asset(m, accs, owner, src_id_addr, src_id_size) ==
    hf_load_asset_out(
        get_account_asset(accs, slice_from_mem(m, src_id_addr, src_id_size), owner),
        slice_to_wslice(m, get_account_asset(accs,
                               slice_from_mem(m, src_id_addr, src_id_size), owner).val))

\* hf_store_asset(dst_id_addr, dst_id_size, value_addr, value_size)
hf_store_asset(m, accs, owner, dst_id_addr, dst_id_size, value_addr, value_size) ==
    [mem |-> m,
     accs |-> set_account_asset(accs, slice_from_mem(m, dst_id_addr, dst_id_size), owner,
                                slice_from_mem(m, value_addr, value_size))]

\* host_wrap::load_asset(id): val is slice_from_wslice(wslice).to_vec()
load_asset_read(r) ==
    [mem |-> r.mem, accs |-> r.accs, val |-> slice_from_wslice(r.mem, r.wslice)]

load_asset_at(i, accs, owner, id) ==
    IF i.mem.oom THEN [mem |-> i.mem, accs |-> accs, val |-> <<>>]
    ELSE load_asset_read(hf_load_asset(i.mem, accs, owner, i.addr, Len(id)))

load_asset(m, accs, owner, id) == load_asset_at(slice_to_mem(m, id), accs, owner, id)

\* host_wrap::store_asset(id, value): the id is written first, then the value
store_asset_at(i, v, accs, owner, id, value) ==
    IF v.mem.oom THEN [mem |-> v.mem, accs |-> accs]
    ELSE hf_store_asset(v.mem, accs, owner, i.addr, Len(id), v.addr, Len(value))

store_asset(m, accs, owner, id, value) ==
    store_asset_at(slice_to_mem(m, id), slice_to_mem(slice_to_mem(m, id).mem, value),
                   accs, owner, id, value)

\* The running handler stores value as the record of id for its own asset.
StoreAsset ==
    \E id \in AssetHolders, value \in AssetValues :
        /\ MayOperate
        /\ memory' = store_asset(memory, accounts, RunningOwner, id, value).mem
        /\ accounts' = store_asset(memory, accounts, RunningOwner, id, value).accs
        /\ op' = [NoOp EXCEPT !.seq = op.seq + 1, !.kind = "store_asset",
                              !.owner = RunningOwner, !.id = id, !.data = value]
        /\ written' = IF memory'.oom THEN written
                      ELSE MapPut(written, <<id, RunningOwner>>, value)
        /\ UNCHANGED panicked
        /\ DataFrame

\* The running handler loads the record of id for its own asset.
LoadAsset ==
    \E id \in AssetHolders :
        /\ MayOperate
        /\ memory' = load_asset(memory, accounts, RunningOwner, id).mem
        /\ accounts' = load_asset(memory, accounts, RunningOwner, id).accs
        /\ op' = [NoOp EXCEPT !.seq = op.seq + 1, !.kind = "load_asset",
                              !.owner = RunningOwner, !.id = id,
                              !.ret = load_asset(memory, accounts, RunningOwner, id).val]
        /\ UNCHANGED <<panicked, written>>
        /\ DataFrame

NextAsset == SetContractMethod \/ Start \/ DataCall \/ Return \/ StoreAsset \/ LoadAsset

\* asset records read and written by handlers running under nested calls
SpecAsset == Init /\ [][NextAsset]_vars

NextWrites == SetContractMethod \/ Start \/ DataCall \/ Return \/ StoreData \/ StoreAsset

\* keyed data and asset records written by handlers that then return Ok or Err
SpecWrites == Init /\ [][NextWrites]_vars

-----------------------------------------------------------------------------
(* Typed assets (tai.rs: Asset, AssetTransferArgs; host_wrap.rs:           *)
(* load_asset_typed, store_asset_typed)                                    *)

\* A u64 is kept as four 16-bit limbs, the most significant first.
U64(n) == <<0, 0, Hi16(n), Lo16(n)>>

\* u64::MAX
U64Max == <<65535, 65535, 65535, 65535>>

RECURSIVE CarryInto(_, _, _)
\* the carry of a + b into limb i; into limb 0 it is the carry out of the u64
CarryInto(a, b, i) ==
    IF i = 4 THEN 0 ELSE (a[i + 1] + b[i + 1] + CarryInto(a, b, i + 1)) \div 65536

\* a + b modulo 2^64, and whether the sum exceeds u64::MAX
u64_add(a, b) ==
    [val |-> [i \in 1..4 |-> (a[i] + b[i] + CarryInto(a, b, i)) % 65536],
     overflow |-> CarryInto(a, b, 0) = 1]

RECURSIVE BorrowInto(_, _, _)
\* the borrow of a - b from limb i; from limb 0 it says that a < b
BorrowInto(a, b, i) ==
    IF i = 4 THEN 0
    ELSE IF a[i + 1] - b[i + 1] - BorrowInto(a, b, i + 1) < 0 THEN 1 ELSE 0

\* a - b modulo 2^64
u64_sub(a, b) == [i \in 1..4 |-> (a[i] - b[i] - BorrowInto(a, b, i) + 65536) % 65536]

\* a < b
u64_lt(a, b) == BorrowInto(a, b, 0) = 1

\* two bytes, big endian
EncBE16(x) == <<x \div 256, x % 256>>

\* MessagePack u64 in its shortest form: fixint, u8, u16, u32 (0xce), u64 (0xcf)
EncU64(u) ==
    IF u[1] # 0 \/ u[2] # 0
    THEN <<207>> \o EncBE16(u[1]) \o EncBE16(u[2]) \o EncBE16(u[3]) \o EncBE16(u[4])
    ELSE IF u[3] # 0 THEN <<206>> \o EncBE16(u[3]) \o EncBE16(u[4])
    ELSE EncUInt(u[4])

\* u64: fixint, u8, u16, u32 or u64
DecU64(b, p) ==
    IF p > Len(b) THEN DecFail
    ELSE IF b[p] < 128 THEN [ok |-> TRUE, val |-> U64(b[p]), next |-> p + 1]
    ELSE IF b[p] = 204 /\ p + 1 <= Len(b)
         THEN [ok |-> TRUE, val |-> U64(b[p + 1]), next |-> p + 2]
    ELSE IF b[p] = 205 /\ p + 2 <= Len(b)
         THEN [ok |-> TRUE, val |-> U64(b[p + 1] * 256 + b[p + 2]), next |-> p + 3]
    ELSE IF b[p] = 206 /\ p + 4 <= Len(b)
         THEN [ok |-> TRUE,
               val |-> <<0, 0, b[p + 1] * 256 + b[p + 2], b[p + 3] * 256 + b[p + 4]>>,
               next |-> p + 5]
    ELSE IF b[p] = 207 /\ p + 8 <= Len(b)
         THEN [ok |-> TRUE,
               val |-> <<b[p + 1] * 256 + b[p + 2], b[p + 3] * 256 + b[p + 4],
                         b[p + 5] * 256 + b[p + 6], b[p + 7] * 256 + b[p + 8]>>,
               next |-> p + 9]
    ELSE DecFail

\* enum LockPrivilege and enum LockType
LockPrivileges == {"Owner", "Contract", "Creator"}

LockTypes == {"None", "Deposit", "Withdraw", "Full"}

\* a unit variant is serialized as its name
VariantName(v) ==
    CASE v = "Owner" -> <<79, 119, 110, 101, 114>>
      [] v = "Contract" -> <<67, 111, 110, 116, 114, 97, 99, 116>>
      [] v = "Creator" -> <<67, 114, 101, 97, 116, 111, 114>>
      [] v = "None" -> <<78, 111, 110, 101>>
      [] v = "Deposit" -> <<68, 101, 112, 111, 115, 105, 116>>
      [] v = "Withdraw" -> <<87, 105, 116, 104, 100, 114, 97, 119>>
      [] v = "Full" -> <<70, 117, 108, 108>>

EncVariant(v) == EncStrHeader(Len(VariantName(v))) \o VariantName(v)

\* the variant of variants named by the str at position p
DecVariant(b, p, variants) ==
    LET r == DecStr(b, p) IN
    IF r.ok /\ \E v \in variants : VariantName(v) = r.val
    THEN [ok |-> TRUE, val |-> CHOOSE v \in variants : VariantName(v) = r.val,
          next |-> r.next]
    ELSE DecFail

\* Asset { units, lock }: lock is <<>> for None, <<privilege, type>> for Some
Asset_new(val) == [units |-> val, lock |-> <<>>]

\* Faulty variant: the default record carries a lock.
Asset_default_locked == [units |-> U64(0), lock |-> <<"Owner", "Full">>]

\* Asset::default()
Asset_default == Asset_new(U64(0))

\* Faulty variant: skip_serializing_if is ignored, a missing lock is written as nil.
Asset_serialize_with_nil(a) ==
    IF a.lock = <<>> THEN <<146>> \o EncU64(a.units) \o <<192>>
    ELSE <<146>> \o EncU64(a.units) \o <<146>> \o EncVariant(a.lock[1]) \o EncVariant(a.lock[2])

\* rmp_serialize(&Asset): [units] when lock is None, else [units, [privilege, type]]
Asset_serialize(a) ==
    IF a.lock = <<>> THEN <<145>> \o EncU64(a.units)
    ELSE <<146>> \o EncU64(a.units) \o <<146>> \o EncVariant(a.lock[1]) \o EncVariant(a.lock[2])

\* the Option<(LockPrivilege, LockType)> at position p: nil, or an array of two
DecLock(b, p) ==
    IF p > Len(b) THEN DecFail
    ELSE IF b[p] = 192 THEN [ok |-> TRUE, val |-> <<>>, next |-> p + 1]
    ELSE IF b[p] = 146
    THEN LET x == DecVariant(b, p + 1, LockPrivileges)
             y == IF x.ok THEN DecVariant(b, x.next, LockTypes) ELSE DecFail
         IN IF y.ok THEN [ok |-> TRUE, val |-> <<x.val, y.val>>, next |-> y.next]
            ELSE DecFail
    ELSE DecFail

\* the Asset made of the decoded units u and the decoded lock l
Asset_build(u, l) ==
    IF u.ok /\ l.ok THEN [ok |-> TRUE, val |-> [units |-> u.val, lock |-> l.val]]
    ELSE [ok |-> FALSE, val |-> Asset_default]

\* the lock that follows the units u: absent in an array of one (serde default)
Asset_after_units(b, u) ==
    Asset_build(u, IF ~u.ok THEN DecFail
                   ELSE IF b[1] = 145 THEN [ok |-> TRUE, val |-> <<>>, next |-> u.next]
                   ELSE DecLock(b, u.next))

\* rmp_deserialize::<Asset>
Asset_deserialize(b) ==
    Asset_after_units(b, IF Len(b) >= 1 /\ b[1] \in {145, 146} THEN DecU64(b, 2) ELSE DecFail)

\* rmp_serialize(&AssetTransferArgs { from, to, units, data: None })
AssetTransferArgs_serialize(args) ==
    <<147>> \o EncStrHeader(Len(args.from)) \o args.from
    \o EncStrHeader(Len(args.to)) \o args.to \o EncU64(args.units)

\* the arguments made of the decoded strings s and the units that follow them
AssetTransferArgs_build(b, s) ==
    IF s.ok /\ DecU64(b, s.next).ok
    THEN [ok |-> TRUE, val |-> [from |-> s.val[1], to |-> s.val[2],
                               units |-> DecU64(b, s.next).val]]
    ELSE [ok |-> FALSE, val |-> [from |-> <<>>, to |-> <<>>, units |-> U64(0)]]

\* rmp_deserialize::<AssetTransferArgs>
AssetTransferArgs_deserialize(b) ==
    AssetTransferArgs_build(b, IF Len(b) >= 1 /\ b[1] = 147 THEN DecStrs(b, 2, 2) ELSE DecFail)

\* rmp_deserialize(&buf).unwrap_or_default()
Asset_or_default(buf) ==
    IF Asset_deserialize(buf).ok THEN Asset_deserialize(buf).val ELSE Asset_default

\* get_account_asset_gen::<Asset>(src_id, asset_id), on the table as it is
get_account_asset_gen(accs, src_id, asset_id) ==
    Asset_or_default(get_account_asset(accs, src_id, asset_id).val)

\* set_account_asset_gen(dst_id, asset, value)
set_account_asset_gen(accs, dst_id, asset, value) ==
    set_account_asset(accs, dst_id, asset, Asset_serialize(value))

\* host_wrap::load_asset_typed::<Asset>(id)
load_asset_typed_of(r) == [mem |-> r.mem, accs |-> r.accs, val |-> Asset_or_default(r.val)]

load_asset_typed(m, accs, owner, id) == load_asset_typed_of(load_asset(m, accs, owner, id))

\* host_wrap::store_asset_typed(id, value)
store_asset_typed(m, accs, owner, id, value) ==
    store_asset(m, accs, owner, id, Asset_serialize(value))

-----------------------------------------------------------------------------
(* The mocked asset method transfer (not_wasm.rs: asset_transfer;          *)
(* host_wrap.rs: asset_transfer)                                           *)

\* number of transfers requested in one behaviour
MaxTransfers == 1

\* the account of the asset, and the method name "transfer"
AssetId == AcctAB

MethTransfer == <<116, 114, 97, 110, 115, 102, 101, 114>>

\* "source account locked"
MsgSourceLocked ==
    <<115, 111, 117, 114, 99, 101, 32, 97, 99, 99, 111, 117, 110, 116, 32, 108, 111, 99, 107, 101, 100>>

\* "error during transfer"
MsgErrorDuringTransfer ==
    <<101, 114, 114, 111, 114, 32, 100, 117, 114, 105, 110, 103, 32, 116, 114, 97, 110, 115, 102, 101, 114>>

\* "destination account locked"
MsgDestinationLocked ==
    <<100, 101, 115, 116, 105, 110, 97, 116, 105, 111, 110, 32, 97, 99, 99, 111, 117, 110, 116, 32, 108, 111, 99, 107, 101, 100>>

\* the locks a record may carry: every privilege with Deposit, Withdraw and Full
AssetLocks == LockPrivileges \X {"Deposit", "Withdraw", "Full"}

\* preset balances: 5, 2^16 and u64::MAX; a holder without a record holds 0
AssetBalances == {U64(5), U64(65536), U64Max}

\* the records the harness presets: every balance unlocked, and 5 units under
\* every lock
AssetRecords ==
    {Asset_new(val) : val \in AssetBalances}
      \cup {[units |-> U64(5), lock |-> l] : l \in AssetLocks}

\* the units asked to be transferred
TransferUnits == {U64(0), U64(3), U64(6)}

\* what the handler leaves when it ends after the step r: the memory, the
\* accounts, whether it panicked, and the Result it returns otherwise
asset_transfer_end(r, panic, ok, data) ==
    [mem |-> r.mem, accs |-> r.accs, panic |-> panic, res |-> [ok |-> ok, data |-> data]]

\* Faulty variant: the lock of the destination is not looked at.
asset_transfer_credit_unchecked(l, owner, args, checks) ==
    IF l.mem.oom THEN asset_transfer_end(l, FALSE, FALSE, <<>>)
    ELSE IF checks /\ u64_add(l.val.units, args.units).overflow
    THEN asset_transfer_end(l, TRUE, FALSE, <<>>)
    ELSE asset_transfer_end(
             store_asset_typed(l.mem, l.accs, owner, args.to,
                               [l.val EXCEPT !.units = u64_add(@, args.units).val]),
             FALSE, TRUE, <<192>>)

\* asset_transfer from the destination record l on: the lock check and the
\* credit.  value.units += args.units panics on overflow when the build checks
\* overflows, and wraps otherwise.
asset_transfer_credit(l, owner, args, checks) ==
    IF l.mem.oom THEN asset_transfer_end(l, FALSE, FALSE, <<>>)
    ELSE IF l.val.lock # <<>> THEN asset_transfer_end(l, FALSE, FALSE, MsgDestinationLocked)
    ELSE IF checks /\ u64_add(l.val.units, args.units).overflow
    THEN asset_transfer_end(l, TRUE, FALSE, <<>>)
    ELSE asset_transfer_end(
             store_asset_typed(l.mem, l.accs, owner, args.to,
                               [l.val EXCEPT !.units = u64_add(@, args.units).val]),
             FALSE, TRUE, <<192>>)

\* asset_transfer once the debited source record has been stored by s
asset_transfer_deposit(s, owner, args, checks) ==
    IF s.mem.oom THEN asset_transfer_end(s, FALSE, FALSE, <<>>)
    ELSE asset_transfer_credit(load_asset_typed(s.mem, s.accs, owner, args.to),
                               owner, args, checks)

\* Faulty variant: only a Full lock stops the withdrawal.
asset_transfer_withdraw_full_only(l, owner, args, checks) ==
    IF l.mem.oom THEN asset_transfer_end(l, FALSE, FALSE, <<>>)
    ELSE IF l.val.lock # <<>> /\ l.val.lock[2] = "Full"
    THEN asset_transfer_end(l, FALSE, FALSE, MsgSourceLocked)
    ELSE IF u64_lt(l.val.units, args.units)
    THEN asset_transfer_end(l, FALSE, FALSE, MsgErrorDuringTransfer)
    ELSE asset_transfer_deposit(
             store_asset_typed(l.mem, l.accs, owner, args.from,
                               [l.val EXCEPT !.units = u64_sub(@, args.units)]),
             owner, args, checks)

\* Faulty variant: the units of the source are not compared with the units asked.
asset_transfer_withdraw_any_units(l, owner, args, checks) ==
    IF l.mem.oom THEN asset_transfer_end(l, FALSE, FALSE, <<>>)
    ELSE IF l.val.lock # <<>> THEN asset_transfer_end(l, FALSE, FALSE, MsgSourceLocked)
    ELSE asset_transfer_deposit(
             store_asset_typed(l.mem, l.accs, owner, args.from,
                               [l.val EXCEPT !.units = u64_sub(@, args.units)]),
             owner, args, checks)

\* Faulty variant: the lock of the source is not looked at.
asset_transfer_withdraw_unchecked(l, owner, args, checks) ==
    IF l.mem.oom THEN asset_transfer_end(l, FALSE, FALSE, <<>>)
    ELSE IF u64_lt(l.val.units, args.units)
    THEN asset_transfer_end(l, FALSE, FALSE, MsgErrorDuringTransfer)
    ELSE asset_transfer_deposit(
             store_asset_typed(l.mem, l.accs, owner, args.from,
                               [l.val EXCEPT !.units = u64_sub(@, args.units)]),
             owner, args, checks)

\* asset_transfer from the source record l on: the lock check, the balance
\* check and the debit
asset_transfer_withdraw(l, owner, args, checks) ==
    IF l.mem.oom THEN asset_transfer_end(l, FALSE, FALSE, <<>>)
    ELSE IF l.val.lock # <<>> THEN asset_transfer_end(l, FALSE, FALSE, MsgSourceLocked)
    ELSE IF u64_lt(l.val.units, args.units)
    THEN asset_transfer_end(l, FALSE, FALSE, MsgErrorDuringTransfer)
    ELSE asset_transfer_deposit(
             store_asset_typed(l.mem, l.accs, owner, args.from,
                               [l.val EXCEPT !.units = u64_sub(@, args.units)]),
             owner, args, checks)

\* asset_transfer with the decoded arguments a: the unwrap panics on a failure
asset_transfer_args(m, accs, owner, a, checks) ==
    IF ~a.ok THEN asset_transfer_end([mem |-> m, accs |-> accs], TRUE, FALSE, <<>>)
    ELSE asset_transfer_withdraw(load_asset_typed(m, accs, owner, a.val.from),
                                 owner, a.val, checks)

\* asset_transfer(ctx, args), run in the context whose owner is owner; checks
\* says whether the build checks arithmetic overflows
asset_transfer(m, accs, owner, args, checks) ==
    asset_transfer_args(m, accs, owner, AssetTransferArgs_deserialize(args), checks)

\* Test harness, before the root context is installed: register asset_transfer
\* as the method "transfer" of the asset account.
SetAssetMethod ==
    /\ Running /\ stack = <<>>
    /\ method_key(AssetId, MethTransfer) \notin DOMAIN contract_methods
    /\ set_contract_method(AssetId, MethTransfer, "asset_transfer")
    /\ UNCHANGED <<memory, app_ctx, stack, accounts, req, last, ret, callable_ret,
                   nsetup, ncalls>>
    /\ UNCHANGED <<run_vars, store_vars, aside_vars>>

\* Test harness, once the method is registered: preset the record of a holder;
\* the asset account itself holds 7 units.
SetAccountAsset ==
    \E id \in AssetHolders \cup {AssetId} :
        \E value \in IF id = AssetId THEN {Asset_new(U64(7))} ELSE AssetRecords :
            /\ Running /\ stack = <<>>
            /\ method_key(AssetId, MethTransfer) \in DOMAIN contract_methods
            /\ accounts' = set_account_asset_gen(accounts, id, AssetId, value)
            /\ UNCHANGED <<memory, panicked, op, written>>
            /\ DataFrame

\* host_wrap::asset_transfer(from, to, asset, units), called by the root code
\* for two distinct holders
AssetTransfer ==
    \E from \in AssetHolders, to \in AssetHolders, units \in TransferUnits :
        /\ Running /\ Len(stack) = 1 /\ ncalls < MaxTransfers /\ from # to
        /\ call(AssetId, MethTransfer,
                AssetTransferArgs_serialize([from |-> from, to |-> to, units |-> units]))
        /\ ncalls' = ncalls + 1
        /\ UNCHANGED <<callable_ret, nsetup>>
        /\ UNCHANGED <<run_vars, op, written, aside_vars>>

\* what the thread is left with when the handler panics or an assertion fails
TransferUnwinds(h) ==
    /\ memory' = h.mem
    /\ accounts' = h.accs
    /\ panicked' = h.panic
    /\ UNCHANGED <<app_ctx, stack, contract_methods, registered, last, ret>>

\* The handler asset_transfer runs on the arguments of its frame and returns to
\* hf_s_call.
AssetTransferRun ==
    \E checks \in BOOLEAN :
        /\ Running /\ Len(stack) >= 2 /\ stack[Len(stack)].func = "asset_transfer"
        /\ LET h == asset_transfer(memory, accounts, RunningOwner,
                                   stack[Len(stack)].args, checks)
           IN IF h.panic \/ h.mem.oom THEN TransferUnwinds(h)
              ELSE /\ hf_s_call_finish(h.mem, h.accs, h.res)
                   /\ ret' = wrapper_ret
                   /\ UNCHANGED panicked
        /\ UNCHANGED <<req, callable_ret, nsetup, ncalls, op, written>>
        /\ UNCHANGED <<run_vars, aside_vars>>

NextTransfer == SetAssetMethod \/ SetAccountAsset \/ Start \/ AssetTransfer \/ AssetTransferRun

\* transfers of the mocked asset between preset holders
SpecTransfer == Init /\ [][NextTransfer]_vars

-----------------------------------------------------------------------------
(* The mocked asset methods balance and lock (not_wasm.rs: asset_balance,  *)
(* asset_lock; host_wrap.rs: asset_balance, asset_lock)                    *)

\* number of calls made to the asset in one behaviour of SpecLedger
MaxLedgerCalls == 2

\* the method names "balance" and "lock"
MethBalance == <<98, 97, 108, 97, 110, 99, 101>>

MethLock == <<108, 111, 99, 107>>

\* "account locked"
MsgAccountLocked == <<97, 99, 99, 111, 117, 110, 116, 32, 108, 111, 99, 107, 101, 100>>

\* the methods of the asset account and the handlers the tests register for them
LedgerMethods ==
    {<<MethBalance, "asset_balance">>, <<MethLock, "asset_lock">>,
     <<MethTransfer, "asset_transfer">>}

\* rmp_serialize(&Option<(LockPrivilege, LockType)>): nil, or [privilege, type]
OptionLock_serialize(lock) ==
    IF lock = <<>> THEN <<192>>
    ELSE <<146>> \o EncVariant(lock[1]) \o EncVariant(lock[2])

\* rmp_serialize(&AssetLockArgs { to, lock })
AssetLockArgs_serialize(args) ==
    <<146>> \o EncStrHeader(Len(args.to)) \o args.to \o EncVariant(args.lock)

\* the arguments made of the decoded string s and the lock type that follows it
AssetLockArgs_build(b, s) ==
    IF s.ok /\ DecVariant(b, s.next, LockTypes).ok
    THEN [ok |-> TRUE, val |-> [to |-> s.val, lock |-> DecVariant(b, s.next, LockTypes).val]]
    ELSE [ok |-> FALSE, val |-> [to |-> <<>>, lock |-> "None"]]

\* rmp_deserialize::<AssetLockArgs>
AssetLockArgs_deserialize(b) ==
    AssetLockArgs_build(b, IF Len(b) >= 1 /\ b[1] = 146 THEN DecStr(b, 2) ELSE DecFail)

\* asset_balance from the caller's record l on
asset_balance_of(l) ==
    IF l.mem.oom THEN asset_transfer_end(l, FALSE, FALSE, <<>>)
    ELSE IF l.val.lock # <<>> THEN asset_transfer_end(l, FALSE, FALSE, MsgAccountLocked)
    ELSE asset_transfer_end(l, FALSE, TRUE, EncU64(l.val.units))

\* Faulty variant: the record of the context owner is read.
asset_balance_of_owner(m, accs, ctx) ==
    asset_balance_of(load_asset_typed(m, accs, ctx.owner, ctx.owner))

\* asset_balance(ctx, _args)
asset_balance(m, accs, ctx) ==
    asset_balance_of(load_asset_typed(m, accs, ctx.owner, ctx.caller))

\* value.lock = match args.lock { None => None, lock_type => Some((Owner, lock_type)) }
asset_lock_value(lock_type) == IF lock_type = "None" THEN <<>> ELSE <<"Owner", lock_type>>

\* asset_lock once the caller's record l has been loaded: store the record
\* with the new lock, return the previous one
asset_lock_store(l, ctx, args) ==
    IF l.mem.oom THEN asset_transfer_end(l, FALSE, FALSE, <<>>)
    ELSE asset_transfer_end(
             store_asset_typed(l.mem, l.accs, ctx.owner, ctx.caller,
                               [l.val EXCEPT !.lock = asset_lock_value(args.lock)]),
             FALSE, TRUE, OptionLock_serialize(l.val.lock))

\* asset_lock with the decoded arguments a: the unwrap panics on a failure
asset_lock_args(m, accs, ctx, a) ==
    IF ~a.ok THEN asset_transfer_end([mem |-> m, accs |-> accs], TRUE, FALSE, <<>>)
    ELSE asset_lock_store(load_asset_typed(m, accs, ctx.owner, ctx.caller), ctx, a.val)

\* Faulty variant: the lock is set at the privilege Creator, for the kind None too.
asset_lock_as_creator(m, accs, ctx, args) ==
    IF ~AssetLockArgs_deserialize(args).ok
    THEN asset_transfer_end([mem |-> m, accs |-> accs], TRUE, FALSE, <<>>)
    ELSE asset_transfer_end(
             store_asset_typed(m, accs, ctx.owner, ctx.caller,
                 [load_asset_typed(m, accs, ctx.owner, ctx.caller).val
                    EXCEPT !.lock = <<"Creator", AssetLockArgs_deserialize(args).val.lock>>]),
             FALSE, TRUE,
             OptionLock_serialize(load_asset_typed(m, accs, ctx.owner, ctx.caller).val.lock))

\* Faulty variant: the record locked is the one of the account named by to.
asset_lock_of_to(m, accs, ctx, args) ==
    IF ~AssetLockArgs_deserialize(args).ok
    THEN asset_transfer_end([mem |-> m, accs |-> accs], TRUE, FALSE, <<>>)
    ELSE asset_lock_store(
             load_asset_typed(m, accs, ctx.owner, AssetLockArgs_deserialize(args).val.to),
             [ctx EXCEPT !.caller = AssetLockArgs_deserialize(args).val.to],
             AssetLockArgs_deserialize(args).val)

\* asset_lock(ctx, args)
asset_lock(m, accs, ctx, args) ==
    asset_lock_args(m, accs, ctx, AssetLockArgs_deserialize(args))

\* "not the source"
MsgNotSource == <<110, 111, 116, 32, 116, 104, 101, 32, 115, 111, 117, 114, 99, 101>>

\* Faulty variant: a transfer is refused unless the caller is the source.
ledger_handler_by_source(func, m, accs, ctx, args, checks) ==
    CASE func = "asset_balance" -> asset_balance(m, accs, ctx)
      [] func = "asset_lock" -> asset_lock(m, accs, ctx, args)
      [] func = "asset_transfer" ->
           IF /\ AssetTransferArgs_deserialize(args).ok
              /\ AssetTransferArgs_deserialize(args).val.from # ctx.caller
           THEN asset_transfer_end([mem |-> m, accs |-> accs], FALSE, FALSE, MsgNotSource)
           ELSE asset_transfer(m, accs, ctx.owner, args, checks)

\* the handler registered as func, run in the context ctx on args
ledger_handler(func, m, accs, ctx, args, checks) ==
    CASE func = "asset_balance" -> asset_balance(m, accs, ctx)
      [] func = "asset_lock" -> asset_lock(m, accs, ctx, args)
      [] func = "asset_transfer" -> asset_transfer(m, accs, ctx.owner, args, checks)

\* Test harness, before the root context is installed: register the handlers of
\* the asset account.
SetLedgerMethod ==
    \E mf \in LedgerMethods :
        /\ Running /\ stack = <<>>
        /\ method_key(AssetId, mf[1]) \notin DOMAIN contract_methods
        /\ set_contract_method(AssetId, mf[1], mf[2])
        /\ UNCHANGED <<memory, app_ctx, stack, accounts, req, last, ret, callable_ret,
                       nsetup, ncalls>>
        /\ UNCHANGED <<run_vars, store_vars, aside_vars>>

\* Test harness, once the three methods are registered: preset the record of the
\* root account; the other holder holds 7 units.
SetLedgerAsset ==
    \E id \in AssetHolders :
        \E value \in IF id = UserX THEN {Asset_new(U64(7))} ELSE AssetRecords :
            /\ Running /\ stack = <<>>
            /\ \A mf \in LedgerMethods : method_key(AssetId, mf[1]) \in DOMAIN contract_methods
            /\ accounts' = set_account_asset_gen(accounts, id, AssetId, value)
            /\ UNCHANGED <<memory, panicked, op, written>>
            /\ DataFrame

\* a call made by the root code to a method of the asset account
LedgerCall(method, data) ==
    /\ Running /\ Len(stack) = 1 /\ ncalls < MaxLedgerCalls
    /\ call(AssetId, method, data)
    /\ ncalls' = ncalls + 1
    /\ UNCHANGED <<callable_ret, nsetup>>
    /\ UNCHANGED <<run_vars, op, written, aside_vars>>

\* host_wrap::asset_balance(asset)
AssetBalance == LedgerCall(MethBalance, <<>>)

\* host_wrap::asset_lock(asset, to, value)
AssetLock ==
    \E to \in {UserX}, value \in LockTypes :
        LedgerCall(MethLock, AssetLockArgs_serialize([to |-> to, lock |-> value]))

\* argument buffers that decode neither as AssetTransferArgs nor as
\* AssetLockArgs: nil, and an array of one string
BadLedgerArgs == {<<192>>, <<145, 161, 120>>}

\* call(asset, method, data) with arguments the handler cannot decode
BadArgsCall ==
    \E method \in {MethTransfer, MethLock}, data \in BadLedgerArgs : LedgerCall(method, data)

\* The handler of the running frame runs on the arguments of its frame and
\* returns to hf_s_call.
LedgerRun ==
    \E checks \in BOOLEAN :
        /\ Running /\ Len(stack) >= 2
        /\ stack[Len(stack)].func \in {"asset_balance", "asset_lock", "asset_transfer"}
        /\ LET h == ledger_handler(stack[Len(stack)].func, memory, accounts,
                                   stack[Len(stack)].ctx, stack[Len(stack)].args, checks)
           IN IF h.panic \/ h.mem.oom THEN TransferUnwinds(h)
              ELSE /\ hf_s_call_finish(h.mem, h.accs, h.res)
                   /\ ret' = wrapper_ret
                   /\ UNCHANGED panicked
        /\ UNCHANGED <<req, callable_ret, nsetup, ncalls, op, written>>
        /\ UNCHANGED <<run_vars, aside_vars>>

NextLedger ==
    SetLedgerMethod \/ SetLedgerAsset \/ Start \/ AssetBalance \/ AssetLock \/ BadArgsCall
      \/ LedgerRun

\* balance and lock requests of the root account on the mocked asset
SpecLedger == Init /\ [][NextLedger]_vars

\* the unlocked records the harness presets: 5 units and u64::MAX
UnlockedRecords == {Asset_new(val) : val \in {U64(5), U64Max}}

\* Test harness, once the three methods are registered: preset an unlocked
\* record for a holder; a holder that is passed over has no record.
SetUnlockedAsset ==
    \E id \in AssetHolders, value \in UnlockedRecords :
        /\ Running /\ stack = <<>>
        /\ \A mf \in LedgerMethods : method_key(AssetId, mf[1]) \in DOMAIN contract_methods
        /\ accounts' = set_account_asset_gen(accounts, id, AssetId, value)
        /\ UNCHANGED <<memory, panicked, op, written>>
        /\ DataFrame

\* host_wrap::asset_transfer(from, to, asset, units), called by the root code
TransferCall ==
    \E from \in AssetHolders, to \in AssetHolders, units \in TransferUnits :
        LedgerCall(MethTransfer,
                   AssetTransferArgs_serialize([from |-> from, to |-> to, units |-> units]))

NextUnlocked ==
    SetLedgerMethod \/ SetUnlockedAsset \/ Start \/ AssetBalance \/ TransferCall \/ LedgerRun

\* balance and transfer requests on records that are unlocked or were never
\* stored, without any lock request
SpecUnlocked == Init /\ [][NextUnlocked]_vars

\* Test harness: create_app_context(owner, "x") for a root account that is
\* either holder, then call_wrap.
StartAs ==
    \E owner \in AssetHolders :
        /\ Running /\ stack = <<>>
        /\ stack' = <<[ctx |-> create_app_context(owner, UserX), func |-> "root",
                       args |-> <<>>, prev_ctx |-> 0, contract |-> <<>>,
                       entry_ptr |-> 0, entry_ctx |-> NoCtx]>>
        /\ app_ctx' = 1
        /\ UNCHANGED <<memory, accounts, contract_methods, registered, req, last, ret,
                       callable_ret, nsetup, ncalls>>
        /\ UNCHANGED <<run_vars, store_vars, aside_vars>>

NextCallers == SetLedgerMethod \/ SetLedgerAsset \/ StartAs \/ AssetTransfer \/ LedgerRun

\* a transfer requested by either holder, out of its own record or out of the
\* other holder's
SpecCallers == Init /\ [][NextCallers]_vars

-----------------------------------------------------------------------------
(* Host instances of separate threads (not_wasm.rs: THREADS_DATA,          *)
(* thread_data)                                                            *)

\* number of thread switches in one behaviour of SpecThreads
MaxSwitches == 2

\* number of calls one thread makes in SpecThreads
MaxThreadCalls == 1

\* Faulty variant: one static shared by the threads of the process.
thread_data_shared(t) == 1

\* thread_data(): THREADS_DATA.with(..) hands the thread t the slot of the
\* thread-local key that belongs to t, created with ThreadData::default()
thread_data(t) == t

\* the ThreadData of the running thread
ThreadDataNow ==
    [memory |-> memory, app_ctx |-> app_ctx, accounts |-> accounts,
     contract_methods |-> contract_methods]

\* the native state of the running thread
ThreadOwnNow ==
    ThreadOwn(stack, registered, req, last, ret, callable_ret, nsetup, ncalls, run_in,
              app_calls, run_out, panicked, op, written)

\* THREADS_DATA once the running thread has left the processor
tls_saved == [tls EXCEPT ![thread_data(thread)] = ThreadDataNow]

\* the thread t resumes on the ThreadData d
ThreadResumes(t, d) ==
    /\ thread' = t
    /\ memory' = d.memory
    /\ app_ctx' = d.app_ctx
    /\ accounts' = d.accounts
    /\ contract_methods' = d.contract_methods
    /\ stack' = parked[t].own.stack
    /\ registered' = parked[t].own.registered
    /\ req' = parked[t].own.req
    /\ last' = parked[t].own.last
    /\ ret' = parked[t].own.ret
    /\ callable_ret' = parked[t].own.callable_ret
    /\ nsetup' = parked[t].own.nsetup
    /\ ncalls' = parked[t].own.ncalls
    /\ run_in' = parked[t].own.run_in
    /\ app_calls' = parked[t].own.app_calls
    /\ run_out' = parked[t].own.run_out
    /\ panicked' = parked[t].own.panicked
    /\ op' = parked[t].own.op
    /\ written' = parked[t].own.written

\* The scheduler takes the processor from the running thread and gives it to
\* the thread t, which goes on with the ThreadData of its own slot.
SwitchThread ==
    \E t \in Threads \ {thread} :
        /\ nswitch < MaxSwitches
        /\ nswitch' = nswitch + 1
        /\ tls' = tls_saved
        /\ parked' = [parked EXCEPT ![thread] = [data |-> ThreadDataNow, own |-> ThreadOwnNow]]
        /\ ThreadResumes(t, tls_saved[thread_data(t)])
        /\ UNCHANGED <<calc, handed>>

\* Test harness of a thread: set_contract_method("a", "c", f1)
ThreadRegister ==
    /\ Running /\ stack = <<>>
    /\ method_key(AcctA, MethC) \notin DOMAIN contract_methods
    /\ set_contract_method(AcctA, MethC, "f1")
    /\ UNCHANGED <<memory, app_ctx, stack, accounts, req, last, ret, callable_ret, nsetup,
                   ncalls>>
    /\ UNCHANGED <<run_vars, store_vars, aside_vars>>

\* Test harness of a thread: set_account_data("a", "k", [1]) or
\* set_account_asset_gen("x", asset, Asset::new(5))
ThreadStore ==
    \E kind \in {"data", "asset"} :
        /\ Running /\ stack = <<>> /\ accounts = EmptyMap
        /\ accounts' = IF kind = "data" THEN set_account_data(accounts, AcctA, <<107>>, <<1>>)
                       ELSE set_account_asset_gen(accounts, UserX, AssetId, Asset_new(U64(5)))
        /\ UNCHANGED <<memory, app_ctx, stack, contract_methods, registered, req, last, ret,
                       callable_ret, nsetup, ncalls>>
        /\ UNCHANGED <<run_vars, store_vars, aside_vars>>

\* The root code of a thread writes bytes to the arena and calls "c" of "a".
ThreadCall ==
    /\ Running /\ Len(stack) = 1 /\ ncalls < MaxThreadCalls
    /\ call(AcctA, MethC, <<7>>)
    /\ ncalls' = ncalls + 1
    /\ UNCHANGED <<callable_ret, nsetup>>
    /\ UNCHANGED <<run_vars, op, written, aside_vars>>

NextThreads == ThreadRegister \/ ThreadStore \/ Start \/ ThreadCall \/ Return \/ SwitchThread

\* two test threads, each working on its own host instance, interleaved
SpecThreads == Init /\ [][NextThreads]_vars

-----------------------------------------------------------------------------
(* Nesting depth (not_wasm.rs: call_wrap, hf_s_call; core.rs: AppInput)    *)

\* depths of the context a test hands to call_wrap: the first ones and the
\* last two of the u16 range
DepthSamples == {0, 1, 65534, 65535}

\* Test harness: call_wrap(func, ctx, args) with a context of the test's making;
\* the fields of AppContext are public.
StartAtDepth ==
    \E owner \in RootOwners, depth \in DepthSamples :
        /\ Running /\ stack = <<>>
        /\ stack' = <<[ctx |-> [create_app_context(owner, UserX) EXCEPT !.depth = depth],
                       func |-> "root", args |-> <<>>, prev_ctx |-> 0, contract |-> <<>>,
                       entry_ptr |-> 0, entry_ctx |-> NoCtx]>>
        /\ app_ctx' = 1
        /\ UNCHANGED <<memory, accounts, contract_methods, registered, req, last, ret,
                       callable_ret, nsetup, ncalls>>
        /\ UNCHANGED <<run_vars, store_vars, aside_vars>>

NextDepth == SetContractMethod \/ StartAtDepth \/ Call \/ Return

\* nested calls made under contexts of every sampled depth
SpecDepth == Init /\ [][NextDepth]_vars

-----------------------------------------------------------------------------
(* The arena under writes of every size (not_wasm.rs: write_mem;           *)
(* common.rs: slice_to_mem, slice_from_mem)                                *)

\* number of writes and calls the test code makes in one behaviour of SpecMem
MaxWrites == 3

\* sizes of the buffers written: empty, small, the sizes that fill an empty
\* arena but for one byte and to the last byte, and the sizes that do so after
\* a small write
WriteSizes == {0, 3, MEMORY_SIZE - 4, MEMORY_SIZE - 3, MEMORY_SIZE - 1, MEMORY_SIZE}

\* n bytes that differ from write to write: byte i of the write number k
Fill(n, k) == [i \in 1..n |-> ((i + 101 * k) % 251) + 1]

\* the arena and the history once write_mem(buf) has given w
WriteStep(buf, w) ==
    /\ memory' = w.mem
    /\ handed' = Append(handed, [off |-> w.addr, data |-> buf, ok |-> ~w.mem.oom])

\* The test code writes a buffer: slice_to_mem(buf), that is write_mem(buf).
\* The history keeps the offset returned, the bytes, and whether the call
\* returned at all.
WriteMem ==
    \E n \in WriteSizes :
        /\ Running /\ Len(handed) + ncalls < MaxWrites
        /\ WriteStep(Fill(n, Len(handed)), slice_to_mem(memory, Fill(n, Len(handed))))
        /\ UNCHANGED <<engine_vars, run_vars, store_vars, thread_vars, calc>>

\* a call made between the writes
MemCall == Len(handed) + ncalls < MaxWrites /\ ThreadCall

NextMem == WriteMem \/ ThreadRegister \/ Start \/ MemCall \/ Return

\* writes of the test code interleaved with a nested call
SpecMem == Init /\ [][NextMem]_vars

-----------------------------------------------------------------------------
(* The codecs as functions (common.rs: wslice_create, wslice_split,        *)
(* rmp_serialize, rmp_deserialize; core.rs: AppInput, AppOutput; export.rs *)
(* tests)                                                                  *)

\* i32 values: the extremes, the values around zero and around the limb
\* boundary, an arena offset
I32Samples ==
    {-2147483647 - 1, -2147483647, -65537, -65536, -1, 0, 1, 16384, 65535, 65536, 2147483647}

\* a string of n letters "a"
Rep(n) == [i \in 1..n |-> 97]

\* CALLER of the export tests, 46 bytes
CALLER ==
    <<81, 109, 89, 72, 110, 69, 81, 76, 100, 102, 53, 104, 55, 75, 89, 98, 106, 70, 80,
      117, 72, 83, 82, 107, 50, 83, 80, 103, 100, 88, 114, 74, 87, 70, 104, 53, 87, 54,
      57, 54, 72, 80, 102, 113, 55, 105>>

\* account and method names: empty, short, at both sides of the fixstr / str8
\* boundary, the identifier the tests use, and "é"
StrSamples == {<<>>, AcctA, Rep(31), Rep(32), CALLER, <<195, 169>>}

\* AppInput values
CallContexts ==
    {[depth |-> d, network |-> Skynet, owner |-> o, caller |-> UserX, method |-> m,
      origin |-> g] :
        d \in {0, 127, 128, 255, 256, 65535}, o \in StrSamples,
        m \in {<<>>, MethC, Rep(32)}, g \in {UserX, CALLER}}

\* a < b in the order of Rust strings: bytewise, a proper prefix first
RECURSIVE BytesLess(_, _)
BytesLess(a, b) ==
    IF b = <<>> THEN FALSE
    ELSE IF a = <<>> THEN TRUE
    ELSE IF a[1] # b[1] THEN a[1] < b[1]
    ELSE BytesLess(Tail(a), Tail(b))

\* the first key of a BTreeMap among keys
FirstKey(keys) == CHOOSE k \in keys : \A o \in keys \ {k} : BytesLess(k, o)

\* a Value that is an integer or a string, as rmp_serde writes it
Value_scalar(v) ==
    IF v.t = "int" THEN EncUInt(v.v) ELSE EncStrHeader(Len(v.v)) \o v.v

RECURSIVE Value_entries(_, _)
\* the entries of the map m under keys, in key order, the entry of k first
Value_entry(m, keys, k) ==
    EncStrHeader(Len(k)) \o k \o Value_scalar(m[k]) \o Value_entries(m, keys \ {k})

Value_entries(m, keys) == IF keys = {} THEN <<>> ELSE Value_entry(m, keys, FirstKey(keys))

\* rmp_serde::to_vec_named(&Value::Map(m)): fixmap header, then the entries
Value_serialize(m) == <<128 + Cardinality(DOMAIN m)>> \o Value_entries(m, DOMAIN m)

\* value!({ "age": 33, "name": "Cole" })
ValueCole ==
    MapPut(MapPut(EmptyMap, <<110, 97, 109, 101>>, [t |-> "str", v |-> <<67, 111, 108, 101>>]),
           <<97, 103, 101>>, [t |-> "int", v |-> 33])

\* "bad args"
MsgBadArgs == <<98, 97, 100, 32, 97, 114, 103, 115>>

\* AppOutput values: the two of the export tests, and data that is empty, short,
\* not UTF-8, and at both sides of the bin8 / bin16 boundary
CallResults ==
    {AppOutput_ok(Value_serialize(ValueCole)), AppOutput_ko(MsgBadArgs)}
      \cup {[success |-> b, data |-> d] :
               b \in BOOLEAN, d \in {<<>>, <<5>>, <<255, 0>>, Rep(255), Rep(256), Rep(300)}}

\* unit counts at the boundaries of the MessagePack integer forms
UnitSamples ==
    {U64(0), U64(100), U64(127), U64(128), U64(255), U64(256), U64(65535), U64(65536),
     <<0, 65535, 65535, 65535>>, <<1, 0, 0, 0>>, U64Max}

\* Asset values: every unit count without a lock and under each lock
AssetSamples ==
    {[units |-> u, lock |-> l] :
        u \in UnitSamples, l \in {<<>>} \cup (LockPrivileges \X LockTypes)}

\* "ecdsa", the tag of PublicKey::Ecdsa, and "secp384r1", the name of the curve
TagEcdsa == <<101, 99, 100, 115, 97>>

CurveSecp384R1 == <<115, 101, 99, 112, 51, 56, 52, 114, 49>>

\* rmp_serialize(&PublicKey::Ecdsa(ecdsa::PublicKey { curve, value })): the
\* internally tagged enum is written as [tag, curve, value]
PublicKey_serialize(pk) ==
    <<147>> \o EncStrHeader(Len(TagEcdsa)) \o TagEcdsa
      \o EncStrHeader(Len(CurveSecp384R1)) \o CurveSecp384R1
      \o EncBinHeader(Len(pk.value)) \o pk.value

\* the value of a public key whose tag and curve have been read
PublicKey_value(r) ==
    IF r.ok THEN [ok |-> TRUE, val |-> [value |-> r.val], next |-> r.next] ELSE DecFail

\* the curve and the value of a public key whose tag has been read
PublicKey_curve(b, r) ==
    IF r.ok /\ r.val = CurveSecp384R1 THEN PublicKey_value(DecBytes(b, r.next)) ELSE DecFail

PublicKey_tag(b, r) ==
    IF r.ok /\ r.val = TagEcdsa THEN PublicKey_curve(b, DecStr(b, r.next)) ELSE DecFail

\* rmp_deserialize::<PublicKey>(buf)
PublicKey_deserialize(b) ==
    IF Len(b) >= 1 /\ b[1] = 147 THEN PublicKey_tag(b, DecStr(b, 2)) ELSE DecFail

\* hf_verify: 0 for a public key that cannot be read, otherwise the first byte
\* of the signature as an i32; indexing an empty signature panics
hf_verify(m, pk_addr, pk_size, data_addr, data_size, sign_addr, sign_size) ==
    IF ~PublicKey_deserialize(slice_from_mem(m, pk_addr, pk_size)).ok
    THEN [panic |-> FALSE, ret |-> 0]
    ELSE IF sign_size = 0 THEN [panic |-> TRUE, ret |-> 0]
    ELSE [panic |-> FALSE, ret |-> MemByte(m, sign_addr)]

\* the host call on the three buffers written
verify_call(w, pk_addr, pk_size, data_addr, data_size, sign_size) ==
    [mem |-> w.mem,
     res |-> hf_verify(w.mem, pk_addr, pk_size, data_addr, data_size, w.addr, sign_size)]

verify_sign(w, pk_addr, pk_size, data_size, sign) ==
    verify_call(slice_to_mem(w.mem, sign), pk_addr, pk_size, w.addr, data_size, Len(sign))

verify_data(w, pk_size, data, sign) ==
    verify_sign(slice_to_mem(w.mem, data), w.addr, pk_size, Len(data), sign)

\* verify, from the serialized key on: the key, the data and the signature are
\* written to the arena and handed to hf_verify
verify_host(m, pk, data, sign) == verify_data(slice_to_mem(m, pk), Len(pk), data, sign)

\* verify(pk, data, sign): true when the host returned 1
verify(m, pk, data, sign) == verify_host(m, PublicKey_serialize(pk), data, sign)

\* key values, data and signatures: a signature is empty or starts with 0, 1, 2
\* or 255
KeySamples == {[value |-> <<>>], [value |-> <<4, 1, 2>>]}

SignSamples == {<<>>, <<0>>, <<1>>, <<2>>, <<1, 0>>, <<255, 1>>}

\* buffers that are not a public key: nil, another tag, another curve
BadKeyBuffers ==
    {<<192>>, <<147, 161, 101, 161, 101, 196, 0>>,
     <<147>> \o EncStrHeader(Len(TagEcdsa)) \o TagEcdsa \o <<161, 101, 196, 0>>}

\* the evaluations to make
CodecInputs ==
    {[kind |-> "wslice", done |-> 0, offset |-> o, length |-> l, wslice |-> <<>>,
      pair |-> <<>>] : o \in I32Samples, l \in I32Samples}
      \cup {[kind |-> k, done |-> 0, val |-> v, buf |-> <<>>, back |-> DecFail] :
               k \in {"input"}, v \in CallContexts}
      \cup {[kind |-> k, done |-> 0, val |-> v, buf |-> <<>>, back |-> DecFail] :
               k \in {"output"}, v \in CallResults}
      \cup {[kind |-> k, done |-> 0, val |-> v, buf |-> <<>>, back |-> DecFail] :
               k \in {"asset"}, v \in AssetSamples}
      \cup {[kind |-> "verify", done |-> 0, pk |-> k, data |-> d, sign |-> g, ret |-> 0,
            ok |-> FALSE] :
               k \in KeySamples, d \in {<<>>, <<1, 2, 3>>}, g \in SignSamples}
      \cup {[kind |-> "hf_verify", done |-> 0, pk |-> k, data |-> <<1, 2, 3>>, sign |-> g,
            ret |-> 0] :
               k \in BadKeyBuffers, g \in SignSamples}

InitCodec == InitHost /\ calc \in CodecInputs

CalcFrame == UNCHANGED <<memory, engine_vars, run_vars, store_vars, thread_vars, handed>>

CalcStep(kind, done) == calc.kind = kind /\ calc.done = done /\ CalcFrame

\* wslice_create(offset, length)
WsliceCreate ==
    /\ CalcStep("wslice", 0)
    /\ calc' = [calc EXCEPT !.done = 1, !.wslice = wslice_create(calc.offset, calc.length)]

\* wslice_split(wslice)
WsliceSplit ==
    /\ CalcStep("wslice", 1)
    /\ calc' = [calc EXCEPT !.done = 2, !.pair = wslice_split(calc.wslice)]

\* rmp_serde::to_vec(&input)
SerializeInput ==
    /\ CalcStep("input", 0)
    /\ calc' = [calc EXCEPT !.done = 1, !.buf = AppInput_serialize(calc.val)]

\* rmp_deserialize::<AppInput>(buf)
DeserializeInput ==
    /\ CalcStep("input", 1)
    /\ calc' = [calc EXCEPT !.done = 2, !.back = AppInput_deserialize(calc.buf)]

\* rmp_serde::to_vec(&app_res)
SerializeOutput ==
    /\ CalcStep("output", 0)
    /\ calc' = [calc EXCEPT !.done = 1, !.buf = AppOutput_serialize(calc.val)]

\* rmp_serde::from_read_ref::<AppOutput>(slice)
DeserializeOutput ==
    /\ CalcStep("output", 1)
    /\ calc' = [calc EXCEPT !.done = 2, !.back = AppOutput_deserialize(calc.buf)]

\* rmp_serialize(&asset)
SerializeAsset ==
    /\ CalcStep("asset", 0)
    /\ calc' = [calc EXCEPT !.done = 1, !.buf = Asset_serialize(calc.val)]

\* rmp_deserialize::<Asset>(buf)
DeserializeAsset ==
    /\ CalcStep("asset", 1)
    /\ calc' = [calc EXCEPT !.done = 2, !.back = Asset_deserialize(calc.buf)]

\* what a verification leaves: the arena with the three buffers, the result
VerifyStep(r) ==
    /\ memory' = r.mem
    /\ panicked' = r.res.panic
    /\ UNCHANGED <<engine_vars, run_vars, op, written, thread_vars, handed>>

\* verify(&pk, data, sign) == 1
Verify ==
    /\ calc.kind = "verify" /\ calc.done = 0
    /\ VerifyStep(verify(memory, calc.pk, calc.data, calc.sign))
    /\ calc' = [calc EXCEPT !.done = 1,
                            !.ret = verify(memory, calc.pk, calc.data, calc.sign).res.ret,
                            !.ok = (verify(memory, calc.pk, calc.data, calc.sign).res.ret = 1)]

\* hf_verify on a buffer that is not a public key
HfVerify ==
    /\ calc.kind = "hf_verify" /\ calc.done = 0
    /\ VerifyStep(verify_host(memory, calc.pk, calc.data, calc.sign))
    /\ calc' = [calc EXCEPT !.done = 1,
                            !.ret = verify_host(memory, calc.pk, calc.data, calc.sign).res.ret]

NextCodec ==
    WsliceCreate \/ WsliceSplit \/ SerializeInput \/ DeserializeInput \/ SerializeOutput
      \/ DeserializeOutput \/ SerializeAsset \/ DeserializeAsset \/ Verify \/ HfVerify

\* the slice and envelope codecs applied to sampled values
SpecCodec == InitCodec /\ [][NextCodec]_vars

-----------------------------------------------------------------------------
(* Properties of the call dispatch                                         *)

\* C1: after every completed hf_call / hf_s_call, whatever its exit path
\* (incompatible contract, method not found, handler returned Ok or Err), the
\* current context is the one that was current immediately before the call,
\* by address and by content; the current context is always that of the
\* innermost running handler, and every handler, a later sibling included, was
\* entered under its caller's own context and sees caller = the parent's owner
\* and depth = the parent's depth + 1.
C1_ContextRestored ==
    /\ (Running /\ stack # <<>>) => app_ctx = Len(stack)
    /\ (Running /\ last.kind # "none") =>
          /\ app_ctx = last.ptr_before
          /\ get_app_ctx = last.ctx_before
    /\ \A i \in 2..Len(stack) :
          /\ stack[i].entry_ptr = i - 1
          /\ stack[i].entry_ctx = stack[i - 1].ctx
          /\ stack[i].ctx.caller = stack[i - 1].ctx.owner
          /\ stack[i].ctx.depth = stack[i - 1].ctx.depth + 1

\* C1 witness: a handler at depth 1 has had a nested call return Err and is
\* running again under its own context.
C1_Witness ==
    /\ Len(stack) = 2
    /\ last.kind = "returned"
    /\ ~last.outcome.ok
    /\ last.ctx_before = stack[2].ctx
    /\ last.ctx_before.depth = 1

\* C2: the context handed to a dispatched handler, and current while it runs,
\* has owner = the callee account, caller = the owner of the context current
\* at the call (not that context's caller) and method = the invoked method;
\* the handler receives the argument bytes of the call.
C2_ChildContext ==
    (Running /\ Len(stack) >= 2 /\ last.kind = "none") =>
        LET fr == stack[Len(stack)] IN
        /\ fr.ctx.owner = req.account
        /\ fr.ctx.caller = fr.entry_ctx.owner
        /\ fr.ctx.method = req.method
        /\ fr.args = req.data
        /\ get_app_ctx = fr.ctx

\* C2 witness: a handler entered from a parent whose owner and caller differ.
C2_Witness ==
    /\ Len(stack) = 3
    /\ last.kind = "none"
    /\ stack[2].ctx.owner # stack[2].ctx.caller
    /\ stack[3].ctx.caller = stack[2].ctx.owner
    /\ stack[3].ctx.owner # stack[3].ctx.caller

\* C3: the root context has depth 0, the handler at nesting level k sees
\* depth = k, and origin and network at every level are the root's.
C3_DepthOriginNetwork ==
    \A i \in 1..Len(stack) :
        /\ stack[i].ctx.depth = i - 1
        /\ stack[i].ctx.origin = stack[1].ctx.origin
        /\ stack[i].ctx.network = stack[1].ctx.network
        /\ stack[1].ctx.origin = stack[1].ctx.caller
        /\ stack[1].ctx.network = Skynet

\* C3 witness: a chain of three contexts, the two callees being different accounts.
C3_Witness ==
    /\ Len(stack) = 3
    /\ stack[3].ctx.depth = 2
    /\ stack[2].ctx.owner # stack[3].ctx.owner
    /\ stack[1].ctx.owner # stack[2].ctx.owner

\* the AppOutput found at the handle the latest host call returned
ResultAt(m, wslice) == AppOutput_deserialize(slice_from_wslice(m, wslice))

\* the expected contract code of a request is non-empty and the callee is
\* missing from accs or stores another code
Mismatch(r, accs) ==
    /\ r.contract # <<>>
    /\ ~(r.account \in DOMAIN accs /\ accs[r.account].contract = r.contract)

\* the step leaves the context, the call stack, the accounts and the registry alone
NothingTouched ==
    /\ stack' = stack
    /\ app_ctx' = app_ctx
    /\ accounts' = accounts
    /\ contract_methods' = contract_methods
    /\ registered' = registered

\* C4: a call whose non-empty expected code does not match (callee missing or
\* other code stored) returns {success: false, "incompatible contract app"},
\* runs no handler, and changes neither the context nor any account or
\* registry entry, whether or not the method is registered.
C4_IncompatibleContract ==
    [][(ncalls' # ncalls /\ Mismatch(req', accounts)) =>
          /\ ~memory'.oom
          /\ last'.seq = last.seq + 1
          /\ last'.kind = "incompatible"
          /\ last'.func = "none"
          /\ ResultAt(memory', last'.wslice)
               = [ok |-> TRUE, val |-> [success |-> FALSE, data |-> MsgIncompatible]]
          /\ ret' = [set |-> TRUE, ok |-> FALSE, data |-> MsgIncompatible]
          /\ NothingTouched]_vars

\* C4 witness: the call failed on the fingerprint although the callee account
\* does not exist and the method is not registered either.
C4_Witness ==
    /\ last.kind = "incompatible"
    /\ last.account \notin DOMAIN accounts
    /\ method_key(last.account, last.method) \notin DOMAIN contract_methods
    /\ ret = [set |-> TRUE, ok |-> FALSE, data |-> MsgIncompatible]

\* C5: a call that passes the fingerprint check and finds no handler under the
\* pair's registry key returns {success: false, "method not found"} as an
\* ordinary result: no abort, no handler run, context, accounts and registry
\* unchanged.
C5_MethodNotFound ==
    [][(/\ ncalls' # ncalls
        /\ ~Mismatch(req', accounts)
        /\ is_callable(req'.account, req'.method) = 0) =>
          /\ ~memory'.oom
          /\ last'.seq = last.seq + 1
          /\ last'.kind = "not_found"
          /\ last'.func = "none"
          /\ ResultAt(memory', last'.wslice)
               = [ok |-> TRUE, val |-> [success |-> FALSE, data |-> MsgMethodNotFound]]
          /\ ret' = [set |-> TRUE, ok |-> FALSE, data |-> MsgMethodNotFound]
          /\ NothingTouched]_vars

\* C5 witness: a nested handler got "method not found" and runs on.
C5_Witness ==
    /\ Len(stack) = 2
    /\ last.kind = "not_found"
    /\ ~ret.ok
    /\ ret.data = MsgMethodNotFound
    /\ app_ctx = 2

\* hf_s_call invoked on the buffers call has marshalled, with contract_size 0
call_with_empty_code(account, method, data) ==
    LET a == slice_to_mem(memory, account)
        b == slice_to_mem(a.mem, method)
        c == slice_to_mem(b.mem, data)
    IN /\ hf_s_call(c.mem, a.addr, Len(account), 0, 0,
                    b.addr, Len(method), c.addr, Len(data))
       /\ ret' = wrapper_ret
       /\ req' = [account |-> account, contract |-> <<>>, method |-> method, data |-> data]

\* C6: hf_call is hf_s_call with an empty expected code: every step call can
\* take is the step hf_s_call takes on the same buffers with contract_size 0 and
\* conversely; with an empty code the fingerprint check is skipped, so the call
\* is dispatched exactly when the registry holds the key, whatever code the
\* callee stores and whether or not the callee account exists.
C6_EmptyCodeNoCheck ==
    [][/\ \A account \in AccountIds, method \in MethodNames, data \in CallData :
             call(account, method, data) <=> call_with_empty_code(account, method, data)
       /\ (ncalls' # ncalls /\ req'.contract = <<>>) =>
             /\ last'.kind # "incompatible"
             /\ accounts' = accounts
             /\ IF is_callable(req'.account, req'.method) = 1
                THEN /\ Len(stack') = Len(stack) + 1
                     /\ stack'[Len(stack')].ctx.owner = req'.account
                     /\ stack'[Len(stack')].func
                          = contract_methods[method_key(req'.account, req'.method)]
                ELSE last'.kind = "not_found"]_vars

\* C6 witness: a call without expected code was dispatched to a callee that
\* has no account.
C6_Witness ==
    /\ Len(stack) >= 2
    /\ last.kind = "none"
    /\ req.contract = <<>>
    /\ stack[Len(stack)].contract = <<>>
    /\ stack[Len(stack)].ctx.owner \notin DOMAIN accounts

\* C8: the result found at the returned handle and the value call hands to the
\* calling handler carry the outcome unchanged: Ok(b) gives {success: true, b}
\* and Ok(b); Err(m) gives {success: false, m} and Err(m); the two dispatch
\* failures give Err with their message.
C8_OutcomeCarried ==
    (Running /\ last.kind # "none") =>
        /\ ResultAt(memory, last.wslice)
             = [ok |-> TRUE,
                val |-> [success |-> last.outcome.ok, data |-> last.outcome.data]]
        /\ ret = [set |-> TRUE, ok |-> last.outcome.ok, data |-> last.outcome.data]
        /\ last.kind = "not_found" => last.outcome = [ok |-> FALSE, data |-> MsgMethodNotFound]
        /\ last.kind = "incompatible" => last.outcome = [ok |-> FALSE, data |-> MsgIncompatible]

\* C8 witness: a handler returned Err("e") and its caller received Err("e").
C8_Witness ==
    /\ last.kind = "returned"
    /\ last.func = "f1"
    /\ last.outcome = [ok |-> FALSE, data |-> <<101>>]
    /\ ret = [set |-> TRUE, ok |-> FALSE, data |-> <<101>>]

-----------------------------------------------------------------------------
(* Properties of the handler registry                                      *)

\* C7: the registry is keyed by the pair (entity id, method name): is_callable
\* answers 1 exactly for the pairs that have been registered, and every
\* dispatched frame runs a handler that was registered for exactly its
\* (owner, method) pair, also for ids and names that contain ':'.
C7_RegistryKeyedByPair ==
    /\ \A e \in AccountIds, m \in MethodNames :
           (is_callable(e, m) = 1) <=> (\E f \in ContractFuncs : <<e, m, f>> \in registered)
    /\ callable_ret.set => ((callable_ret.ret = 1) <=> callable_ret.known)
    /\ \A i \in 2..Len(stack) :
           <<stack[i].ctx.owner, stack[i].ctx.method, stack[i].func>> \in registered

-----------------------------------------------------------------------------
(* Properties of the entry point                                           *)

\* the host has just invoked run
RunReturned == run_in.pending /\ ~run_in'.pending

\* C9: run on a context buffer that does not decode as an AppInput returns the
\* handle of the encoding of {success: false, "malformed input"} and does not
\* invoke app_run.
C9_MalformedInput ==
    [][(RunReturned /\ run_in.ctx_buf \in MalformedCtxBuffers) =>
          /\ app_calls' = app_calls
          /\ ~memory'.oom
          /\ slice_from_wslice(memory', run_out'.wslice)
               = AppOutput_serialize([success |-> FALSE, data |-> MsgMalformedInput])
          /\ ResultAt(memory', run_out'.wslice)
               = [ok |-> TRUE, val |-> [success |-> FALSE, data |-> MsgMalformedInput]]]_vars

\* C9 witness: run has returned for the context whose method bytes are
\* 240, 159, 146, and app_run has never been invoked.
C9_Witness ==
    /\ run_out.n = 1
    /\ ~run_in.pending
    /\ run_in.ctx_buf = AppInput_serialize([SampleCtx EXCEPT !.method = BadUtf8Method])
    /\ app_calls = <<>>
    /\ ResultAt(memory, run_out.wslice).val.data = MsgMalformedInput

\* C10: run on the encoding of a context c invokes app_run exactly once, with c
\* and the argument bytes, which runs the function named c.method; the handle
\* returned designates exactly the encoding of {true, bytes} when the result is
\* Ok(bytes) and of {false, msg} when it is Err(msg): its offset is where the
\* result was written and its length the length of the encoding.
C10_RunDispatch ==
    [][(RunReturned /\ run_in.ctx_buf \in ValidCtxBuffers) =>
          \E c \in RunContexts :
              /\ AppInput_serialize(c) = run_in.ctx_buf
              /\ ~memory'.oom
              /\ Len(app_calls') = Len(app_calls) + 1
              /\ SubSeq(app_calls', 1, Len(app_calls)) = app_calls
              /\ app_calls'[Len(app_calls')].ctx = c
              /\ app_calls'[Len(app_calls')].args = run_in.args
              /\ app_calls'[Len(app_calls')].fun
                   = (IF c.method \in ExportedFuns THEN c.method ELSE <<>>)
              /\ c.method \in ExportedFuns => run_out'.res \in Outcomes
              /\ LET out == [success |-> run_out'.res.ok, data |-> run_out'.res.data] IN
                 /\ slice_from_wslice(memory', run_out'.wslice) = AppOutput_serialize(out)
                 /\ wslice_split(run_out'.wslice)
                      = <<memory.off, Len(AppOutput_serialize(out))>>
                 /\ ResultAt(memory', run_out'.wslice) = [ok |-> TRUE, val |-> out]]_vars

\* C10 witness: "foo" ran once on its argument bytes and returned Ok(<<5>>),
\* and run returned the handle of {true, <<5>>}.
C10_Witness ==
    /\ run_out.n = 1
    /\ ~run_in.pending
    /\ Len(app_calls) = 1
    /\ app_calls[1].fun = <<102, 111, 111>>
    /\ app_calls[1].args = <<7>>
    /\ run_out.res = [ok |-> TRUE, data |-> <<5>>]
    /\ ResultAt(memory, run_out.wslice).val = [success |-> TRUE, data |-> <<5>>]

\* C11: run with a method name that is not in the table built by app_export
\* returns a failed result whose message is "method `<name>` not found", and
\* none of the exported functions is executed.
C11_UnknownMethod ==
    [][(RunReturned /\ run_in.ctx_buf \in ValidCtxBuffers) =>
          \A c \in RunContexts :
              (AppInput_serialize(c) = run_in.ctx_buf /\ c.method \notin ExportedFuns) =>
                  /\ ~memory'.oom
                  /\ ResultAt(memory', run_out'.wslice)
                       = [ok |-> TRUE,
                          val |-> [success |-> FALSE, data |-> MsgNoSuchMethod(c.method)]]
                  /\ run_out'.res = [ok |-> FALSE, data |-> MsgNoSuchMethod(c.method)]
                  /\ \A i \in Len(app_calls) + 1 .. Len(app_calls') :
                        app_calls'[i].fun \notin ExportedFuns]_vars

\* C11 witness: run returned "method `z` not found" for the method "z" after an
\* earlier run of "foo"; the only function executed is that "foo".
C11_Witness ==
    /\ run_out.n = 2
    /\ ~run_in.pending
    /\ \E c \in RunContexts : c.method = <<122>> /\ AppInput_serialize(c) = run_in.ctx_buf
    /\ ResultAt(memory, run_out.wslice).val
         = [success |-> FALSE, data |-> MsgNoSuchMethod(<<122>>)]
    /\ Len(app_calls) = 2
    /\ app_calls[1].fun = <<102, 111, 111>>
    /\ app_calls[2].fun = <<>>

-----------------------------------------------------------------------------
(* Properties of the keyed data                                            *)

\* a keyed-data operation has just been completed
DataOpDone(kinds) == op'.seq # op.seq /\ op'.kind \in kinds /\ ~memory'.oom

\* C12: keyed-data operations are scoped to the owner of the running handler's
\* context, at any call depth: a store or remove changes the keyed data of that
\* owner only (and no asset or contract code of anyone), and a load returns the
\* bytes last stored under the key by that owner, empty if none or removed.
C12_DataScopedToOwner ==
    [][/\ DataOpDone({"store", "remove"}) =>
            /\ op'.owner = RunningOwner
            /\ \A id \in DOMAIN accounts : id \in DOMAIN accounts'
            /\ \A id \in DOMAIN accounts' \cup AccountIds :
                  /\ AssetsOf(accounts', id) = AssetsOf(accounts, id)
                  /\ id \in DOMAIN accounts' =>
                        accounts'[id].contract
                          = (IF id \in DOMAIN accounts THEN accounts[id].contract ELSE <<>>)
                  /\ id # RunningOwner => DataOf(accounts', id) = DataOf(accounts, id)
            /\ \A key \in DataKeys :
                  key # op'.key =>
                      /\ (key \in DOMAIN DataOf(accounts', RunningOwner))
                            = (key \in DOMAIN DataOf(accounts, RunningOwner))
                      /\ key \in DOMAIN DataOf(accounts, RunningOwner) =>
                            DataOf(accounts', RunningOwner)[key]
                              = DataOf(accounts, RunningOwner)[key]
            /\ IF op'.kind = "store" /\ op'.data # <<>>
               THEN /\ op'.key \in DOMAIN DataOf(accounts', RunningOwner)
                    /\ DataOf(accounts', RunningOwner)[op'.key] = op'.data
               ELSE op'.key \notin DOMAIN DataOf(accounts', RunningOwner)
       /\ DataOpDone({"load"}) =>
            /\ op'.ret = (IF <<RunningOwner, op'.key>> \in DOMAIN written
                          THEN written[<<RunningOwner, op'.key>>] ELSE <<>>)
            /\ \A id \in DOMAIN accounts' \cup AccountIds :
                  /\ DataOf(accounts', id) = DataOf(accounts, id)
                  /\ AssetsOf(accounts', id) = AssetsOf(accounts, id)]_vars

\* C12 witness: after a nested callee running as "a:b" stored <<1>> under "k"
\* and returned, its caller "a" loads "k" and gets empty bytes.
C12_Witness ==
    /\ Len(stack) = 1
    /\ last.kind = "returned"
    /\ op.kind = "load"
    /\ op.owner = AcctA
    /\ op.ret = <<>>
    /\ <<AcctAB, <<107>>>> \in DOMAIN written
    /\ written[<<AcctAB, <<107>>>>] = <<1>>
    /\ DataOf(accounts, AcctAB) = (<<107>> :> <<1>>)

\* C13: storing empty bytes under a key leaves exactly the state that removing
\* the key leaves: same memory, same account table, the key absent from the
\* owner's key set, and a load of the key returns empty bytes; whether or not
\* the key existed.
C13_StoreEmptyIsRemove ==
    [][(DataOpDone({"store"}) /\ op'.data = <<>>) =>
          /\ [mem |-> memory', accs |-> accounts'] = remove_data(memory, accounts, op'.key)
          /\ op'.key \notin get_account_keys(accounts', RunningOwner).keys
          /\ get_account_data(accounts', RunningOwner, op'.key).val = <<>>
          /\ load_data(memory', accounts', op'.key).val = <<>>]_vars

\* C13 witness: empty bytes were stored under a key that held a value.
C13_Witness ==
    /\ op.kind = "store"
    /\ op.data = <<>>
    /\ op.had
    /\ op.key \notin DOMAIN DataOf(accounts, op.owner)

\* the pattern does not end with '*'
NoTrailingStar(pattern) ==
    pattern = <<>> \/ pattern[Len(pattern)] # 42

\* C14: for every pattern that does not end with '*', the empty one included,
\* get_data_keys returns the failure "last char of search pattern must be '*'",
\* no keys, and changes no state.
C14_PatternRejected ==
    [][(op'.seq # op.seq /\ op'.kind = "keys" /\ NoTrailingStar(op'.key)) =>
          /\ ~panicked'
          /\ ~op'.ok
          /\ op'.ret = MsgLastChar
          /\ op'.keys = <<>>
          /\ accounts' = accounts]_vars

\* the keys of owner that start with the pattern less its last character
MatchingKeys(accs, owner, pattern) ==
    {key \in DOMAIN DataOf(accs, owner) :
        starts_with(key, SubSeq(pattern, 1, Len(pattern) - 1))}

\* C15: for a pattern p* get_data_keys succeeds and returns, each once, exactly
\* the keys now present in the running owner's keyed data that start with p;
\* with p empty, the owner's whole key set.
C15_KeysByPrefix ==
    [][(op'.seq # op.seq /\ op'.kind = "keys" /\ ~NoTrailingStar(op'.key)) =>
          /\ ~panicked'
          /\ op'.ok
          /\ {op'.keys[i] : i \in 1..Len(op'.keys)}
               = MatchingKeys(accounts, RunningOwner, op'.key)
          /\ Len(op'.keys) = Cardinality(MatchingKeys(accounts, RunningOwner, op'.key))
          /\ op'.key = <<42>> =>
                {op'.keys[i] : i \in 1..Len(op'.keys)} = DOMAIN DataOf(accounts, RunningOwner)
          /\ DataOf(accounts', RunningOwner) = DataOf(accounts, RunningOwner)]_vars

\* C15 witness: the owner holds "k" and "kq", another account holds a key too,
\* and the pattern "kq*" returned "kq" alone.
C15_Witness ==
    /\ op.kind = "keys"
    /\ op.key = <<107, 113, 42>>
    /\ op.ok
    /\ op.keys = <<<<107, 113>>>>
    /\ DOMAIN DataOf(accounts, op.owner) = DataKeys
    /\ DataOf(accounts, AcctAB) # EmptyMap
    /\ op.owner = AcctA

-----------------------------------------------------------------------------
(* Properties of the asset records                                         *)

\* the entry named asset of account id, as a set: empty when there is none
AssetEntry(accs, id, asset) ==
    IF asset \in DOMAIN AssetsOf(accs, id) THEN {AssetsOf(accs, id)[asset]} ELSE {}

-----------------------------------------------------------------------------
(* Properties of the asset transfer                                        *)

\* the handler asset_transfer is running and this step ends it
TransferEnds ==
    /\ stack # <<>>
    /\ stack[Len(stack)].func = "asset_transfer"
    /\ ~memory'.oom
    /\ last'.seq # last.seq \/ panicked'

\* the arguments of the running transfer
TransferArgs == AssetTransferArgs_deserialize(stack[Len(stack)].args).val

\* the record of id for the asset, read as load_asset_typed reads it
Holding(accs, id) == get_account_asset_gen(accs, id, AssetId)

\* the transfer returned Err(msg) to the caller of asset_transfer
TransferFailed(msg) == ~panicked' /\ ret' = [set |-> TRUE, ok |-> FALSE, data |-> msg]

\* the asset entries of every account but those of ids are as they were
OtherRecordsKept(ids) ==
    \A id \in DOMAIN accounts' \cup AccountIds \cup AssetHolders :
        /\ id \in DOMAIN accounts => id \in DOMAIN accounts'
        /\ DataOf(accounts', id) = DataOf(accounts, id)
        /\ \A asset \in DOMAIN AssetsOf(accounts', id) \cup DOMAIN AssetsOf(accounts, id) :
              (id \notin ids \/ asset # AssetId) =>
                  AssetEntry(accounts', id, asset) = AssetEntry(accounts, id, asset)

\* C17: for all starting balances A of from and B of to, two distinct unlocked
\* holders, and every n <= A, asset_transfer succeeds and afterwards from holds
\* A - n, to holds B + n, A' + B' = A + B, and no other record changes.
C17_TransferConserves ==
    [][(/\ TransferEnds
        /\ TransferArgs.from # TransferArgs.to
        /\ Holding(accounts, TransferArgs.from).lock = <<>>
        /\ Holding(accounts, TransferArgs.to).lock = <<>>
        /\ ~u64_lt(Holding(accounts, TransferArgs.from).units, TransferArgs.units)) =>
          /\ ~panicked'
          /\ ret' = [set |-> TRUE, ok |-> TRUE, data |-> <<192>>]
          /\ Holding(accounts', TransferArgs.from).units
               = u64_sub(Holding(accounts, TransferArgs.from).units, TransferArgs.units)
          /\ ~u64_add(Holding(accounts, TransferArgs.to).units, TransferArgs.units).overflow
          /\ Holding(accounts', TransferArgs.to).units
               = u64_add(Holding(accounts, TransferArgs.to).units, TransferArgs.units).val
          /\ u64_add(Holding(accounts', TransferArgs.from).units,
                     Holding(accounts', TransferArgs.to).units)
               = u64_add(Holding(accounts, TransferArgs.from).units,
                         Holding(accounts, TransferArgs.to).units)
          /\ OtherRecordsKept({TransferArgs.from, TransferArgs.to})]_vars

C19_InsufficientUnits ==
    [][(TransferEnds /\ Holding(accounts, TransferArgs.from).lock = <<>>) =>
          /\ TransferFailed(MsgErrorDuringTransfer)
               <=> u64_lt(Holding(accounts, TransferArgs.from).units, TransferArgs.units)
          /\ TransferFailed(MsgErrorDuringTransfer) => OtherRecordsKept({})]_vars

\* C19 witness: the transfer of 6 units from a source holding 5 returned "error
\* during transfer" and left 5 units there.
C19_Witness ==
    /\ ret = [set |-> TRUE, ok |-> FALSE, data |-> MsgErrorDuringTransfer]
    /\ last.func = "asset_transfer"
    /\ AssetTransferArgs_deserialize(req.data).val
         = [from |-> UserX, to |-> AcctA, units |-> U64(6)]
    /\ Holding(accounts, UserX) = Asset_new(U64(5))

LockTypeOf(a) == IF a.lock = <<>> THEN "None" ELSE a.lock[2]

\* the source of the running transfer is unlocked or locked for deposits only,
\* and holds the units asked
SourcePasses(types) ==
    /\ LockTypeOf(Holding(accounts, TransferArgs.from)) \in types
    /\ ~u64_lt(Holding(accounts, TransferArgs.from).units, TransferArgs.units)

\* the transfer returned Ok(()) to the caller of asset_transfer
TransferSucceeded == ~panicked' /\ ret' = [set |-> TRUE, ok |-> TRUE, data |-> <<192>>]

\* C21: lock kinds are directional: a transfer out of a record locked with
\* Deposit (sufficient units, unlocked destination) succeeds, and a transfer
\* into a record locked with Withdraw (from an unlocked, funded source) succeeds.
C21_LocksDirectional ==
    [][(/\ TransferEnds
        /\ ~u64_add(Holding(accounts, TransferArgs.to).units, TransferArgs.units).overflow) =>
          /\ (/\ SourcePasses({"Deposit"})
              /\ LockTypeOf(Holding(accounts, TransferArgs.to)) = "None") => TransferSucceeded
          /\ (/\ SourcePasses({"None"})
              /\ LockTypeOf(Holding(accounts, TransferArgs.to)) = "Withdraw") =>
                 TransferSucceeded]_vars

\* C22: a transfer into a record locked with Deposit or Full never credits it
\* and fails with "destination account locked" when the source side passes; a
\* transfer out of a record locked with Withdraw or Full never debits it and
\* fails with "source account locked"; with Full both directions fail.
C22_ForbiddenDirectionsRejected ==
    [][TransferEnds =>
          /\ LockTypeOf(Holding(accounts, TransferArgs.to)) \in {"Deposit", "Full"} =>
                /\ AssetEntry(accounts', TransferArgs.to, AssetId)
                     = AssetEntry(accounts, TransferArgs.to, AssetId)
                /\ ~TransferSucceeded
                /\ SourcePasses({"None"}) => TransferFailed(MsgDestinationLocked)
          /\ LockTypeOf(Holding(accounts, TransferArgs.from)) \in {"Withdraw", "Full"} =>
                /\ AssetEntry(accounts', TransferArgs.from, AssetId)
                     = AssetEntry(accounts, TransferArgs.from, AssetId)
                /\ TransferFailed(MsgSourceLocked)]_vars

\* C22 witness: a transfer into a record locked (Owner, Full) from a funded,
\* unlocked source returned "destination account locked" and the locked record
\* still holds its 5 units.
C22_Witness ==
    /\ ret = [set |-> TRUE, ok |-> FALSE, data |-> MsgDestinationLocked]
    /\ last.func = "asset_transfer"
    /\ AssetTransferArgs_deserialize(req.data).val.to = UserX
    /\ Holding(accounts, UserX) = [units |-> U64(5), lock |-> <<"Owner", "Full">>]
    /\ Holding(accounts, AcctA).lock = <<>>



\* the handler func of the running frame ends on this step: it returns to
\* hf_s_call or it panics
LedgerEnds(func) ==
    /\ Len(stack) >= 2
    /\ stack[Len(stack)].func = func
    /\ ~memory'.oom
    /\ last'.seq # last.seq \/ panicked'

\* the account whose record the balance and lock handlers work on
LedgerCaller == stack[Len(stack)].ctx.caller

\* the call returned Ok(data) to the wrapper
LedgerOk(data) == ~panicked' /\ ret' = [set |-> TRUE, ok |-> TRUE, data |-> data]

\* C23: asset_balance reads the record the caller holds under the invoked
\* asset; it fails with "account locked" when that record carries a lock of
\* any privilege and kind, returns the encoded units of the record otherwise,
\* and leaves every asset record and every data entry as it was.
C23_BalanceReadsCallerRecord ==
    [][LedgerEnds("asset_balance") =>
          /\ stack[Len(stack)].ctx.owner = AssetId
          /\ IF Holding(accounts, LedgerCaller).lock # <<>>
             THEN TransferFailed(MsgAccountLocked)
             ELSE /\ LedgerOk(EncU64(Holding(accounts, LedgerCaller).units))
                  /\ DecU64(ret'.data, 1).ok
                  /\ DecU64(ret'.data, 1).val = Holding(accounts, LedgerCaller).units
          /\ OtherRecordsKept({})]_vars

C23_Witness ==
    /\ last.func = "asset_balance"
    /\ ret = [set |-> TRUE, ok |-> FALSE, data |-> MsgAccountLocked]
    /\ Holding(accounts, AcctA) = [units |-> U64(5), lock |-> <<"Contract", "Deposit">>]

\* the arguments of the running lock request
LockArgs == AssetLockArgs_deserialize(stack[Len(stack)].args)

C25_HigherPrivilegeLockKept ==
    [][(/\ LedgerEnds("asset_lock") /\ LockArgs.ok
        /\ Holding(accounts, LedgerCaller).lock # <<>>
        /\ Holding(accounts, LedgerCaller).lock[1] \in {"Contract", "Creator"}) =>
          Holding(accounts', LedgerCaller) = Holding(accounts, LedgerCaller)]_vars

\* C26: a call to a method of the asset that ends without the arena being
\* exhausted ends with a result handed to the invoker: the handler does not
\* panic, arguments that do not decode included.
C26_FailuresReachInvoker ==
    [][(/\ Len(stack) >= 2
        /\ stack[Len(stack)].func \in {"asset_balance", "asset_lock", "asset_transfer"}
        /\ ~memory'.oom
        /\ vars' # vars) =>
          /\ ~panicked'
          /\ last'.seq # last.seq
          /\ ret'.set]_vars

\* C27: an operation of the running thread (a registration, a store of data or
\* of an asset, a context installation, a call with its arena writes, a
\* return) leaves the ThreadData held for every other thread, and that
\* thread's native state, as they are; and a thread that resumes finds the
\* arena, current context, registry and entity table it left.
C27_InstancesShareNothing ==
    [][/\ thread' = thread =>
            \A u \in Threads \ {thread} :
                /\ tls'[thread_data(u)] = tls[thread_data(u)]
                /\ parked'[u] = parked[u]
       /\ thread' # thread =>
            /\ memory' = parked[thread'].data.memory
            /\ app_ctx' = parked[thread'].data.app_ctx
            /\ contract_methods' = parked[thread'].data.contract_methods
            /\ accounts' = parked[thread'].data.accounts]_vars

C27_Witness ==
    /\ thread = 1 /\ nswitch = 2
    /\ contract_methods # EmptyMap /\ accounts = EmptyMap /\ Len(stack) = 2
    /\ tls[thread_data(2)].contract_methods = EmptyMap
    /\ tls[thread_data(2)].accounts # EmptyMap
    /\ tls[thread_data(2)].memory.off > 0

\* C28: for every pair (offset, length) of i32 values, negative ones included,
\* the handle made by wslice_create holds the 32-bit pattern of offset in its
\* high half and that of length in its low half, and wslice_split gives back
\* (offset, length).
C28_SliceCodecBijection ==
    calc.kind = "wslice" =>
        /\ calc.done >= 1 =>
              /\ \A i \in 1..4 : calc.wslice[i] \in 0..65535
              /\ AsI32(calc.wslice[1], calc.wslice[2]) = calc.offset
              /\ AsI32(calc.wslice[3], calc.wslice[4]) = calc.length
        /\ calc.done = 2 => calc.pair = <<calc.offset, calc.length>>

C28_Witness ==
    /\ calc.kind = "wslice" /\ calc.done = 2
    /\ calc.offset = 16384 /\ calc.length = -1
    /\ calc.wslice = <<0, 16384, 65535, 65535>>
    /\ calc.pair = <<16384, -1>>

\* C29: decoding the encoding of an AppInput whose fields are valid gives the
\* same AppInput, and decoding the encoding of an AppOutput gives the same
\* AppOutput.
C29_EnvelopeRoundTrip ==
    (calc.kind \in {"input", "output"} /\ calc.done = 2) =>
        calc.back = [ok |-> TRUE, val |-> calc.val]

C29_Witness ==
    /\ calc.kind = "input" /\ calc.done = 2
    /\ calc.val.depth = 65535 /\ calc.val.owner = CALLER /\ calc.val.method = Rep(32)
    /\ calc.back.ok /\ calc.back.val.owner = CALLER

Asset100(type) == [units |-> U64(100), lock |-> <<"Creator", type>>]

\* C31: an Asset without a lock is written as an array of one element, its
\* units; an Asset with a lock as an array of two, the units and the pair of
\* the privilege name and the kind name; reading the bytes back gives the same
\* units and lock.  100 units without a lock are 9164, and with the locks
\* (Creator, Full), (Creator, Deposit), (Creator, Withdraw) the constants of
\* the tests.
C31_AssetCodec ==
    (calc.kind = "asset" /\ calc.done >= 1) =>
        /\ calc.val.lock = <<>> =>
              /\ calc.buf[1] = 145
              /\ DecU64(calc.buf, 2) =
                    [ok |-> TRUE, val |-> calc.val.units, next |-> Len(calc.buf) + 1]
        /\ calc.val.lock # <<>> =>
              /\ calc.buf[1] = 146
              /\ DecU64(calc.buf, 2).ok /\ DecU64(calc.buf, 2).val = calc.val.units
              /\ SubSeq(calc.buf, DecU64(calc.buf, 2).next, Len(calc.buf)) =
                    <<146, 160 + Len(VariantName(calc.val.lock[1]))>>
                      \o VariantName(calc.val.lock[1])
                      \o <<160 + Len(VariantName(calc.val.lock[2]))>>
                      \o VariantName(calc.val.lock[2])
        /\ calc.val = Asset_new(U64(100)) => calc.buf = <<145, 100>>
        /\ calc.val = Asset100("Full") =>
              calc.buf = <<146, 100, 146, 167, 67, 114, 101, 97, 116, 111, 114, 164, 70, 117,
                           108, 108>>
        /\ calc.val = Asset100("Deposit") =>
              calc.buf = <<146, 100, 146, 167, 67, 114, 101, 97, 116, 111, 114, 167, 68, 101,
                           112, 111, 115, 105, 116>>
        /\ calc.val = Asset100("Withdraw") =>
              calc.buf = <<146, 100, 146, 167, 67, 114, 101, 97, 116, 111, 114, 168, 87, 105,
                           116, 104, 100, 114, 97, 119>>
        /\ calc.done = 2 => calc.back = [ok |-> TRUE, val |-> calc.val]

C31_Witness ==
    /\ calc.kind = "asset" /\ calc.done = 2
    /\ calc.val = Asset100("Full")
    /\ Len(calc.buf) = 16
    /\ calc.back.val.lock = <<"Creator", "Full">>

\* C32: whatever the depth d of the running context, a call that is dispatched
\* to a handler runs it under a context of depth d + 1, greater than d.
C32_DepthIncreasesByOne ==
    [][(/\ stack # <<>>
        /\ ncalls' # ncalls
        /\ ~memory'.oom
        /\ method_key(req'.account, req'.method) \in DOMAIN contract_methods) =>
          /\ ~panicked'
          /\ Len(stack') = Len(stack) + 1
          /\ stack'[Len(stack')].ctx.depth = get_app_ctx.depth + 1
          /\ stack'[Len(stack')].ctx.depth > get_app_ctx.depth]_vars

\* a write of the test code is made on this step; LastWrite is its record
WriteMade == Len(handed') > Len(handed)

LastWrite == handed'[Len(handed')]

\* C33: a write that returns has copied its data into the arena from the
\* cursor on, has moved the cursor by the length of the data, and has returned
\* the cursor it found; slice_from_mem on the returned offset and that length
\* gives the data, and the bytes below the returned offset are as they were.
C33_WriteAppendsAtCursor ==
    [][(WriteMade /\ LastWrite.ok) =>
          /\ LastWrite.off = memory.off
          /\ memory'.off = memory.off + Len(LastWrite.data)
          /\ slice_from_mem(memory', LastWrite.off, Len(LastWrite.data)) = LastWrite.data
          /\ slice_from_mem(memory', 0, memory.off) = slice_from_mem(memory, 0, memory.off)]_vars

C33_Witness ==
    /\ Len(handed) = 2 /\ handed[1].ok /\ handed[2].ok
    /\ handed[2].off = 3
    /\ Len(handed[2].data) = MEMORY_SIZE - 4
    /\ memory.off = MEMORY_SIZE - 1
    /\ slice_from_mem(memory, handed[2].off, 3) = SubSeq(Fill(3, 1), 1, 3)

\* C34: a write aborts exactly when the cursor plus the length of the data is
\* greater than MEMORY_SIZE, so a write that fills the arena to its last byte
\* returns; a write that aborts leaves the bytes of the arena as they were.
C34_AbortOnlyBeyondCapacity ==
    [][WriteMade =>
          /\ ~LastWrite.ok <=> memory.off + Len(LastWrite.data) > MEMORY_SIZE
          /\ ~LastWrite.ok => memory'.buf = memory.buf]_vars

\* the ranges of the non-empty writes that returned are pairwise disjoint
WritesDisjoint(h) ==
    \A i \in 1..Len(h), j \in 1..Len(h) :
        (i < j /\ h[i].ok /\ h[j].ok /\ h[i].data # <<>> /\ h[j].data # <<>>) =>
            h[i].off + Len(h[i].data) <= h[j].off

\* every buffer a write returned still holds the bytes written
WritesIntact(m, h) ==
    \A k \in 1..Len(h) : h[k].ok => slice_from_mem(m, h[k].off, Len(h[k].data)) = h[k].data

-----------------------------------------------------------------------------
(* Properties of records never stored                                       *)

\* the account id holds no entry for the asset
Unstored(accs, id) == AssetId \notin DOMAIN AssetsOf(accs, id)

\* no asset entry of any account carries a lock
NoRecordLocked(accs) ==
    \A id \in DOMAIN accs :
        \A asset \in DOMAIN accs[id].assets :
            Asset_or_default(accs[id].assets[asset]).lock = <<>>

\* C36: a record that was never stored reads as 0 units without a lock:
\* asset_balance on it returns 0, asset_transfer of n > 0 units out of it fails
\* with "error during transfer"; and when only transfers and balance requests
\* are made on records that start unlocked, no record carries a lock.
C36_UnstoredRecordIsEmpty ==
    [][/\ \A id \in AssetHolders :
             Unstored(accounts, id) =>
                 Holding(accounts, id) = [units |-> <<0, 0, 0, 0>>, lock |-> <<>>]
       /\ (LedgerEnds("asset_balance") /\ Unstored(accounts, LedgerCaller)) =>
             LedgerOk(<<0>>)
       /\ (/\ LedgerEnds("asset_transfer")
           /\ Unstored(accounts, TransferArgs.from)
           /\ TransferArgs.units # U64(0)) =>
             TransferFailed(MsgErrorDuringTransfer)
       /\ NoRecordLocked(accounts')]_vars

\* C36 witness: two requests were made while the root account had no record,
\* the last one a transfer of 3 units out of it that failed with "error during
\* transfer"; the other holder keeps its 5 units.
C36_Witness ==
    /\ ncalls = 2
    /\ ret = [set |-> TRUE, ok |-> FALSE, data |-> MsgErrorDuringTransfer]
    /\ last.func = "asset_transfer"
    /\ AssetTransferArgs_deserialize(req.data).val
         = [from |-> AcctA, to |-> UserX, units |-> U64(3)]
    /\ Unstored(accounts, AcctA)
    /\ Holding(accounts, UserX) = Asset_new(U64(5))

-----------------------------------------------------------------------------
(* Properties of the verify capability                                      *)

\* C35: for every public key, data and non-empty signature the i32 result of
\* the verify capability is 1 or 0, and the verify wrapper returns true
\* exactly when the host returned 1.
C35_VerifyResultIsBit ==
    (calc.kind = "verify" /\ calc.done = 1 /\ calc.sign # <<>>)
        => /\ calc.ret \in {0, 1}
           /\ calc.ok <=> (calc.ret = 1)

-----------------------------------------------------------------------------
(* Properties of failed calls                                              *)

\* a handler returns Err to hf_s_call on this step
ReturnsErr ==
    /\ Len(stack) >= 2
    /\ Len(stack') = Len(stack) - 1
    /\ last'.seq # last.seq
    /\ ~last'.outcome.ok

\* the table accs holds what was last stored under every key and for every
\* holder that w records; storing an empty value under a key removes the key
WritesKept(accs, w) ==
    \A k \in DOMAIN w :
        IF k[2] \in AccountIds
        THEN AssetEntry(accs, k[1], k[2]) = {w[k]}
        ELSE IF w[k] = <<>> THEN k[2] \notin DOMAIN DataOf(accs, k[1])
        ELSE k[2] \in DOMAIN DataOf(accs, k[1]) /\ DataOf(accs, k[1])[k[2]] = w[k]

\* C38: nothing is rolled back on failure: when a handler returns Err, the
\* entity table is left as the handler and its callees wrote it, so every
\* keyed-data and asset write made so far remains after hf_s_call has returned
\* the failed result; only the current context is restored.
C38_NoRollbackOnFailure ==
    [][/\ ReturnsErr =>
            /\ accounts' = accounts
            /\ app_ctx' = stack[Len(stack)].prev_ctx
            /\ ret'.set /\ ~ret'.ok
       /\ WritesKept(accounts', written')]_vars

\* C38 witness: the handler of "ab" stored <<1>> under the key "k" and returned
\* Err; the root code holds the failed result and the entry is in the table.
C38_Witness ==
    /\ Len(stack) = 1
    /\ last.kind = "returned" /\ ~last.outcome.ok /\ last.account = AcctAB
    /\ ret.set /\ ~ret.ok
    /\ op.kind = "store" /\ op.owner = AcctAB /\ op.key = <<107>> /\ op.data = <<1>>
    /\ <<107>> \in DOMAIN DataOf(accounts, AcctAB)
    /\ DataOf(accounts, AcctAB)[<<107>>] = <<1>>

-----------------------------------------------------------------------------
(* Properties of the caller of a transfer                                  *)

\* what asset_transfer leaves and returns as a function of the arguments, the
\* stored records and the invoked asset alone
TransferOutcome(checks) ==
    asset_transfer(memory, accounts, stack[Len(stack)].ctx.owner, stack[Len(stack)].args,
                   checks)

\* C39: the result and the state changes of asset_transfer are determined by
\* the arguments (from, to, units) and the stored records under the invoked
\* asset, whoever the caller and the origin of the call are: the handler does
\* not check that the caller is the source.
C39_TransferIgnoresCaller ==
    [][LedgerEnds("asset_transfer") =>
          \E checks \in BOOLEAN :
              /\ accounts' = TransferOutcome(checks).accs
              /\ panicked' = TransferOutcome(checks).panic
              /\ ~panicked' => last'.outcome = TransferOutcome(checks).res]_vars

\* C39 witness: the root account "x" asked for 3 units to be moved out of the
\* record of "a", which held 5 units, into its own; the transfer succeeded.
C39_Witness ==
    /\ Len(stack) = 1 /\ stack[1].ctx.owner = UserX
    /\ last.func = "asset_transfer" /\ last.outcome.ok
    /\ last.ctx_before.owner = UserX
    /\ AssetTransferArgs_deserialize(req.data).val
         = [from |-> AcctA, to |-> UserX, units |-> U64(3)]
    /\ Holding(accounts, AcctA) = Asset_new(U64(2))
    /\ Holding(accounts, UserX) = Asset_new(U64(10))

-----------------------------------------------------------------------------
(* Properties of what a lock request leaves alone                          *)

\* the locks a record can carry, none included
AnyLock == {<<>>} \cup (LockPrivileges \X LockTypes)

\* C40: asset_lock changes nothing but the lock of the record the caller holds
\* under the invoked asset: that record keeps its units, the record of the
\* account named by the argument to, when it is not the caller, is left as it
\* is, and so are the records of every other holder and all keyed data.
C40_LockChangesOnlyCallerLock ==
    [][(LedgerEnds("asset_lock") /\ LockArgs.ok) =>
          /\ \E l \in AnyLock :
                Holding(accounts', LedgerCaller)
                  = [Holding(accounts, LedgerCaller) EXCEPT !.lock = l]
          /\ LockArgs.val.to # LedgerCaller =>
                AssetEntry(accounts', LockArgs.val.to, AssetId)
                  = AssetEntry(accounts, LockArgs.val.to, AssetId)
          /\ \A id \in DOMAIN accounts' \cup DOMAIN accounts :
                /\ DataOf(accounts', id) = DataOf(accounts, id)
                /\ id # LedgerCaller => AssetsOf(accounts', id) = AssetsOf(accounts, id)
                /\ \A asset \in (DOMAIN AssetsOf(accounts', id)
                                    \cup DOMAIN AssetsOf(accounts, id)) \ {AssetId} :
                      AssetEntry(accounts', id, asset) = AssetEntry(accounts, id, asset)]_vars

\* C40 witness: the root account "a", holding 65536 units, asked for a Deposit
\* lock naming "x" as to: its own record is locked with the units it had, the
\* record of "x" holds its 7 units without a lock.
C40_Witness ==
    /\ last.func = "asset_lock" /\ last.outcome.ok
    /\ AssetLockArgs_deserialize(req.data).val = [to |-> UserX, lock |-> "Deposit"]
    /\ Holding(accounts, AcctA) = [units |-> U64(65536), lock |-> <<"Owner", "Deposit">>]
    /\ AssetEntry(accounts, UserX, AssetId) = {Asset_serialize(Asset_new(U64(7)))}

====
